---- MODULE Spec2Model ----
(***************************************************************************)
(* A model of kicad-svg-extras: the net colour resolver (colors.py), the   *)
(* CSS identifier sanitizer (colors.py), the CSS-class collision check     *)
(* (svg_generator.py) and the SVG merge engine (svg_processor.py).         *)
(*                                                                         *)
(* Text is modelled as a sequence of one-character strings, so that the    *)
(* string operations of the code (find, replace, strip, regular            *)
(* expressions, fnmatch) are computed the way the code computes them.      *)
(***************************************************************************)
EXTENDS Integers, Sequences, FiniteSets, TLC

VARIABLES
    net_colors_config,  \* colors: the ordered pattern -> colour dict
    net_name,           \* colors: the net handed to resolve_net_color
    color,              \* colors: what resolve_net_color returned
    file_config,        \* __main__: what load_color_config returned (kept for reference)
    overrides,          \* __main__: the --net-color entries applied so far, parsed
    layer_name,         \* colors: the layer handed to net_layer_to_css_class
    css_class,          \* colors: what net_layer_to_css_class returned
    active_nets,        \* svg_generator: the nets with elements on the copper layers
    copper_layers,      \* svg_generator: the copper layers, in the user's order
    layers_done,        \* svg_generator: how many layers the per-layer loop has processed
    net_svgs,           \* svg_generator: the styled fragments produced, per layer
    css_styles,         \* svg_processor: the CSS blocks handed to merge_css_styles
    merged_css,         \* svg_processor: what merge_css_styles returned
    remerged_css,       \* svg_processor: merge_css_styles applied to its own result
    svg_files,          \* svg_processor: the fragments handed to merge_svg_files, in order
    base_svg,           \* svg_processor: the base_svg argument
    forced,             \* svg_processor: the forced width/height/viewBox arguments
    output_file,        \* svg_processor, colors: the file at output_file
    color_input,        \* colors: the value handed to parse_color
    parsed,             \* colors: what parse_color returned, or ColorError
    reparsed,           \* colors: parse_color applied to its own result
    data,               \* colors: the JSON value load_color_config reads
    svg_file,           \* colors: the text of the file at svg_file
    current_color,      \* colors: what find_copper_color_in_svg returned
    old_color,          \* colors: the old_color argument of change_svg_color
    new_color,          \* colors: the new_color argument of change_svg_color
    fallback_color,     \* colors: the fallback_color argument of apply_css_class_to_svg
    net_names,          \* colors: the net_names argument of group_nets_by_color
    color_groups,       \* colors: the color_groups group_nets_by_color returned
    default_nets,       \* colors: the default_nets group_nets_by_color returned
    temp_output_file,   \* __main__, svg_processor: the parsed file at temp_output_file
    original_file,      \* history: temp_output_file as it was before the modelled call
    background_color,   \* svg_processor: the background_color argument
    layer_list,         \* __main__: the layers of --layers, in the user's order
    use_css_classes,    \* __main__: the --use-css-classes flag
    resolved_net_colors,\* __main__: the nets with a user-defined colour
    failed_exports,     \* the exports of the run in which the exporter raises
    temp_dir,           \* __main__: the fragment files in temp_dir
    copper_svgs,        \* __main__: the copper fragments collected for the merge
    non_copper_svgs,    \* __main__: the fragment of each non-copper layer
    all_svgs_to_merge,  \* __main__: the ordered fragment list handed to merge_svg_files
    no_background,      \* __main__: the --no-background flag
    args_output,        \* __main__: the file at the user's output path
    previous_output,    \* history: the file at the user's output path before the run
    error,              \* the exception that ended the call, or NoError
    pc                  \* position of the modelled call

colorVars == <<net_colors_config, net_name, color, file_config, overrides>>

cssVars == <<layer_name, css_class, active_nets, copper_layers, layers_done, net_svgs>>

mergeVars == <<css_styles, merged_css, remerged_css, svg_files, base_svg, forced, output_file>>

parseVars == <<color_input, parsed, reparsed>>

recolorVars == <<svg_file, current_color, old_color, new_color, fallback_color>>

groupVars == <<net_names, color_groups, default_nets>>

fileVars == <<temp_output_file, original_file, background_color>>

mainVars == <<layer_list, use_css_classes, resolved_net_colors, failed_exports, temp_dir,
              copper_svgs, non_copper_svgs, all_svgs_to_merge>>

finishVars == <<no_background, args_output, previous_output>>

pipeVars == <<groupVars, fileVars, mainVars, finishVars>>

vars == <<colorVars, cssVars, mergeVars, parseVars, data, recolorVars, pipeVars, error, pc>>

\* Python's None.
None == <<"None">>

\* No exception was raised.
NoError == [kind |-> "none"]

\* A value no specification reads: the variables of the other components.
Idle == <<"idle">>

\* parse_color, load_color_config and the recolouring functions have not been
\* called.
ColorsIdle ==
    /\ color_input = Idle
    /\ parsed = Idle
    /\ reparsed = Idle
    /\ data = Idle
    /\ svg_file = Idle
    /\ current_color = Idle
    /\ old_color = Idle
    /\ new_color = Idle
    /\ fallback_color = Idle

\* group_nets_by_color has not been called.
GroupIdle ==
    /\ net_names = <<>>
    /\ color_groups = <<>>
    /\ default_nets = <<>>

\* No file of the temporary workspace is worked on.
FileIdle ==
    /\ temp_output_file = Idle
    /\ original_file = Idle
    /\ background_color = None

\* main is not generating fragments.
MainIdle ==
    /\ layer_list = <<>>
    /\ use_css_classes = FALSE
    /\ resolved_net_colors = <<>>
    /\ failed_exports = {}
    /\ temp_dir = {}
    /\ copper_svgs = <<>>
    /\ non_copper_svgs = <<>>
    /\ all_svgs_to_merge = <<>>

\* main is not writing its result.
FinishIdle ==
    /\ no_background = FALSE
    /\ args_output = Idle
    /\ previous_output = Idle

\* Grouping, the background, the cleanup and the pipeline of main have not run.
PipelineIdle ==
    /\ GroupIdle
    /\ FileIdle
    /\ MainIdle
    /\ FinishIdle

\* The merge engine has not been called.
MergeIdle ==
    /\ css_styles = <<>>
    /\ merged_css = Idle
    /\ remerged_css = Idle
    /\ svg_files = <<>>
    /\ base_svg = Idle
    /\ forced = Idle
    /\ output_file = Idle

-----------------------------------------------------------------------------
(* Text helpers *)

\* All sequences over S of length lo..hi.
SeqsOf(S, lo, hi) == UNION {[1..n -> S] : n \in lo..hi}

\* x in s  (Python: membership of a character in a string).
Contains(s, x) == \E i \in 1..Len(s) : s[i] = x

\* s[i:] in Python terms, for a 1-based i.
Tail_(s, i) == SubSeq(s, i, Len(s))

\* str.strip(): leading and trailing whitespace removed.
WhiteSpace == {" ", "\t", "\n"}

RECURSIVE LStrip(_, _)
LStrip(s, chars) ==
    IF Len(s) > 0 /\ s[1] \in chars THEN LStrip(Tail(s), chars) ELSE s

RECURSIVE RStrip(_, _)
RStrip(s, chars) ==
    IF Len(s) > 0 /\ s[Len(s)] \in chars
    THEN RStrip(SubSeq(s, 1, Len(s) - 1), chars) ELSE s

StripChars(s, chars) == RStrip(LStrip(s, chars), chars)

Strip(s) == StripChars(s, WhiteSpace)

UpperLetters == <<"A", "B", "C", "D", "E", "F", "G", "H", "I", "J", "K", "L", "M", "N", "O", "P", "Q", "R", "S", "T", "U", "V", "W", "X", "Y", "Z">>
LowerLetters == <<"a", "b", "c", "d", "e", "f", "g", "h", "i", "j", "k", "l", "m", "n", "o", "p", "q", "r", "s", "t", "u", "v", "w", "x", "y", "z">>

Digits == <<"0", "1", "2", "3", "4", "5", "6", "7", "8", "9">>

HexDigits == <<"0", "1", "2", "3", "4", "5", "6", "7", "8", "9", "A", "B", "C", "D", "E", "F">>

Range(f) == {f[i] : i \in DOMAIN f}

IndexOf(f, x) == CHOOSE i \in DOMAIN f : f[i] = x

\* str.lower() and str.upper(), character by character.
LowerChar(c) == IF c \in Range(UpperLetters) THEN LowerLetters[IndexOf(UpperLetters, c)] ELSE c

UpperChar(c) == IF c \in Range(LowerLetters) THEN UpperLetters[IndexOf(LowerLetters, c)] ELSE c

Lower(s) == [i \in 1..Len(s) |-> LowerChar(s[i])]

Upper(s) == [i \in 1..Len(s) |-> UpperChar(s[i])]

-----------------------------------------------------------------------------
(* colors.py: parse_color *)

ColorError == <<"ColorError">>

MAX_RGB_VALUE == 255

NAMED_COLORS ==
    {
      [name |-> <<"r", "e", "d">>, hex |-> <<"#", "F", "F", "0", "0", "0", "0">>],
      [name |-> <<"g", "r", "e", "e", "n">>, hex |-> <<"#", "0", "0", "8", "0", "0", "0">>],
      [name |-> <<"b", "l", "u", "e">>, hex |-> <<"#", "0", "0", "0", "0", "F", "F">>],
      [name |-> <<"y", "e", "l", "l", "o", "w">>, hex |-> <<"#", "F", "F", "F", "F", "0", "0">>],
      [name |-> <<"c", "y", "a", "n">>, hex |-> <<"#", "0", "0", "F", "F", "F", "F">>],
      [name |-> <<"m", "a", "g", "e", "n", "t", "a">>, hex |-> <<"#", "F", "F", "0", "0", "F", "F">>],
      [name |-> <<"b", "l", "a", "c", "k">>, hex |-> <<"#", "0", "0", "0", "0", "0", "0">>],
      [name |-> <<"w", "h", "i", "t", "e">>, hex |-> <<"#", "F", "F", "F", "F", "F", "F">>],
      [name |-> <<"g", "r", "a", "y">>, hex |-> <<"#", "8", "0", "8", "0", "8", "0">>],
      [name |-> <<"g", "r", "e", "y">>, hex |-> <<"#", "8", "0", "8", "0", "8", "0">>],
      [name |-> <<"o", "r", "a", "n", "g", "e">>, hex |-> <<"#", "F", "F", "A", "5", "0", "0">>],
      [name |-> <<"p", "u", "r", "p", "l", "e">>, hex |-> <<"#", "8", "0", "0", "0", "8", "0">>],
      [name |-> <<"b", "r", "o", "w", "n">>, hex |-> <<"#", "A", "5", "2", "A", "2", "A">>],
      [name |-> <<"l", "i", "m", "e">>, hex |-> <<"#", "0", "0", "F", "F", "0", "0">>],
      [name |-> <<"n", "a", "v", "y">>, hex |-> <<"#", "0", "0", "0", "0", "8", "0">>],
      [name |-> <<"m", "a", "r", "o", "o", "n">>, hex |-> <<"#", "8", "0", "0", "0", "0", "0">>],
      [name |-> <<"o", "l", "i", "v", "e">>, hex |-> <<"#", "8", "0", "8", "0", "0", "0">>],
      [name |-> <<"a", "q", "u", "a">>, hex |-> <<"#", "0", "0", "F", "F", "F", "F">>],
      [name |-> <<"f", "u", "c", "h", "s", "i", "a">>, hex |-> <<"#", "F", "F", "0", "0", "F", "F">>],
      [name |-> <<"s", "i", "l", "v", "e", "r">>, hex |-> <<"#", "C", "0", "C", "0", "C", "0">>],
      [name |-> <<"t", "e", "a", "l">>, hex |-> <<"#", "0", "0", "8", "0", "8", "0">>],
      [name |-> <<"p", "i", "n", "k">>, hex |-> <<"#", "F", "F", "C", "0", "C", "B">>],
      [name |-> <<"g", "o", "l", "d">>, hex |-> <<"#", "F", "F", "D", "7", "0", "0">>],
      [name |-> <<"i", "n", "d", "i", "g", "o">>, hex |-> <<"#", "4", "B", "0", "0", "8", "2">>],
      [name |-> <<"v", "i", "o", "l", "e", "t">>, hex |-> <<"#", "E", "E", "8", "2", "E", "E">>],
      [name |-> <<"t", "u", "r", "q", "u", "o", "i", "s", "e">>, hex |-> <<"#", "4", "0", "E", "0", "D", "0">>],
      [name |-> <<"c", "o", "r", "a", "l">>, hex |-> <<"#", "F", "F", "7", "F", "5", "0">>],
      [name |-> <<"s", "a", "l", "m", "o", "n">>, hex |-> <<"#", "F", "A", "8", "0", "7", "2">>],
      [name |-> <<"k", "h", "a", "k", "i">>, hex |-> <<"#", "F", "0", "E", "6", "8", "C">>],
      [name |-> <<"p", "l", "u", "m">>, hex |-> <<"#", "D", "D", "A", "0", "D", "D">>],
      [name |-> <<"o", "r", "c", "h", "i", "d">>, hex |-> <<"#", "D", "A", "7", "0", "D", "6">>],
      [name |-> <<"t", "a", "n">>, hex |-> <<"#", "D", "2", "B", "4", "8", "C">>],
      [name |-> <<"b", "e", "i", "g", "e">>, hex |-> <<"#", "F", "5", "F", "5", "D", "C">>],
      [name |-> <<"m", "i", "n", "t">>, hex |-> <<"#", "9", "8", "F", "B", "9", "8">>],
      [name |-> <<"l", "a", "v", "e", "n", "d", "e", "r">>, hex |-> <<"#", "E", "6", "E", "6", "F", "A">>],
      [name |-> <<"p", "e", "a", "c", "h">>, hex |-> <<"#", "F", "F", "C", "B", "A", "4">>]
    }

IsHexChar(c) == UpperChar(c) \in Range(HexDigits)

\* re.match(r"^#[0-9A-Fa-f]{6}([0-9A-Fa-f]{2})?$", s)
IsHexColor(s) ==
    /\ Len(s) \in {7, 9}
    /\ s[1] = "#"
    /\ \A i \in 2..Len(s) : IsHexChar(s[i])

\* \s* from position i: the first position that holds no whitespace.
RECURSIVE SkipWs(_, _)
SkipWs(s, i) == IF i <= Len(s) /\ s[i] \in WhiteSpace THEN SkipWs(s, i + 1) ELSE i

\* A run of characters of `set` from position i: the first position after it.
RECURSIVE RunEnd(_, _, _)
RunEnd(s, i, set) == IF i <= Len(s) /\ s[i] \in set THEN RunEnd(s, i + 1, set) ELSE i

At(s, i, c) == i <= Len(s) /\ s[i] = c

\* The two regular expressions of parse_color, for the prefix "rgb" or "rgba":
\*   ^rgb\s*\(\s*(\d+)\s*,\s*(\d+)\s*,\s*(\d+)\s*\)$
\*   ^rgba\s*\(\s*(\d+)\s*,\s*(\d+)\s*,\s*(\d+)\s*,\s*[\d.]+\s*\)$
\* The result is the three captured digit strings, or <<>> for no match.
RgbMatch(s, prefix, with_alpha) ==
    LET n  == Len(prefix)
        D  == Range(Digits)
        a0 == SkipWs(s, n + 1)
        a1 == SkipWs(s, a0 + 1)
        r2 == RunEnd(s, a1, D)
        b0 == SkipWs(s, r2)
        b1 == SkipWs(s, b0 + 1)
        g2 == RunEnd(s, b1, D)
        c0 == SkipWs(s, g2)
        c1 == SkipWs(s, c0 + 1)
        b2 == RunEnd(s, c1, D)
        d0 == SkipWs(s, b2)
        d1 == SkipWs(s, d0 + 1)
        x2 == RunEnd(s, d1, D \cup {"."})
        e0 == SkipWs(s, x2)
        close == IF with_alpha THEN e0 ELSE d0
        ok == /\ Len(s) >= n /\ SubSeq(s, 1, n) = prefix
              /\ At(s, a0, "(")
              /\ r2 > a1 /\ At(s, b0, ",")
              /\ g2 > b1 /\ At(s, c0, ",")
              /\ b2 > c1
              /\ (with_alpha => (At(s, d0, ",") /\ x2 > d1))
              /\ At(s, close, ")") /\ close = Len(s)
    IN  IF ok THEN <<SubSeq(s, a1, r2 - 1), SubSeq(s, b1, g2 - 1), SubSeq(s, c1, b2 - 1)>>
        ELSE <<>>

\* int(val) for a string of decimal digits.
RECURSIVE ToInt(_)
ToInt(d) ==
    IF Len(d) = 0 THEN 0
    ELSE 10 * ToInt(SubSeq(d, 1, Len(d) - 1)) + (IndexOf(Digits, d[Len(d)]) - 1)

\* The upper-case hexadecimal digits of v >= 0.
RECURSIVE HexText(_)
HexText(v) ==
    IF v < 16 THEN <<HexDigits[v + 1]>>
    ELSE HexText(v \div 16) \o <<HexDigits[(v % 16) + 1]>>

\* f"{v:02X}": the hexadecimal digits, padded with a zero to two.
Hex02(v) == IF v < 16 THEN <<"0">> \o HexText(v) ELSE HexText(v)

\* The mutant of HexResult: the alpha digits are kept.
HexResult_KeepsAlpha(s) == Upper(s)

\* color_value.upper()[:7]
HexResult(s) == SubSeq(Upper(s), 1, 7)

\* The mutant of ChannelsValid: every channel value is taken (and wraps).
ChannelsValid_Wrapped(r, g, b) == TRUE

\* all(0 <= val <= MAX_RGB_VALUE for val in (r, g, b))
ChannelsValid(r, g, b) == \A v \in {r, g, b} : 0 <= v /\ v <= MAX_RGB_VALUE

\* parse_color for a string argument; the result is the colour or ColorError.
parse_color(color_value) ==
    LET s    == Strip(color_value)
        rgb  == RgbMatch(s, <<"r", "g", "b">>, FALSE)
        rgba == RgbMatch(s, <<"r", "g", "b", "a">>, TRUE)
        m    == IF rgb # <<>> THEN rgb ELSE rgba
    IN  IF Len(s) = 0 THEN ColorError
        ELSE IF IsHexColor(s) THEN HexResult(s)
        ELSE IF m # <<>> THEN
            LET r == ToInt(m[1])
                g == ToInt(m[2])
                b == ToInt(m[3])
            IN  IF ChannelsValid(r, g, b)
                THEN <<"#">> \o Hex02(r) \o Hex02(g) \o Hex02(b)
                ELSE ColorError
        ELSE IF \E e \in NAMED_COLORS : e.name = Lower(s)
             THEN (CHOOSE e \in NAMED_COLORS : e.name = Lower(s)).hex
        ELSE ColorError

-----------------------------------------------------------------------------
(* colors.py: resolve_net_color *)

\* fnmatch.translate's scan for the "]" closing a "[" at position i-1:
\* j starts at i, steps over a leading "!" and a leading "]", then runs to
\* the next "]".  The result is Len(pat)+1 when there is none.
RECURSIVE ScanClose(_, _)
ScanClose(pat, j) ==
    IF j > Len(pat) \/ pat[j] = "]" THEN j ELSE ScanClose(pat, j + 1)

ClassEnd(pat, i) ==
    LET j1 == IF i <= Len(pat) /\ pat[i] = "!" THEN i + 1 ELSE i
        j2 == IF j1 <= Len(pat) /\ pat[j1] = "]" THEN j1 + 1 ELSE j1
    IN  ScanClose(pat, j2)

\* fnmatch.fnmatchcase(name, pat) from position i of name and p of pat:
\* "*" any run, "?" one character, "[seq]" one character of seq, "[!seq]"
\* one character not in seq, an unclosed "[" the literal character.
RECURSIVE FnMatchFrom(_, _, _, _)
FnMatchFrom(name, i, pat, p) ==
    IF p > Len(pat) THEN i > Len(name)
    ELSE IF pat[p] = "*" THEN
        \E k \in i..(Len(name) + 1) : FnMatchFrom(name, k, pat, p + 1)
    ELSE IF pat[p] = "?" THEN
        i <= Len(name) /\ FnMatchFrom(name, i + 1, pat, p + 1)
    ELSE IF pat[p] = "[" THEN
        LET j == ClassEnd(pat, p + 1) IN
        IF j > Len(pat) THEN
            i <= Len(name) /\ name[i] = "[" /\ FnMatchFrom(name, i + 1, pat, p + 1)
        ELSE
            LET stuff == SubSeq(pat, p + 1, j - 1)
                neg   == stuff[1] = "!"
                body  == IF neg THEN Tail_(stuff, 2) ELSE stuff
                hit   == i <= Len(name) /\ Contains(body, name[i])
            IN  /\ i <= Len(name)
                /\ IF neg THEN ~hit ELSE hit
                /\ FnMatchFrom(name, i + 1, pat, j + 1)
    ELSE i <= Len(name) /\ name[i] = pat[p] /\ FnMatchFrom(name, i + 1, pat, p + 1)

fnmatch(name, pat) == FnMatchFrom(name, 1, pat, 1)

\* The keys of the dict, in insertion order.
Keys(config) == [i \in 1..Len(config) |-> config[i].key]

KeySet(config) == {config[i].key : i \in 1..Len(config)}

\* net_colors_config[key], for a key of the dict.
Lookup(config, key) ==
    LET i == CHOOSE i \in 1..Len(config) : config[i].key = key IN config[i].color

\* The mutant of DictSet: a key the dict already holds keeps its old value.
DictSet_KeepExisting(config, key, value) ==
    IF key \in KeySet(config) THEN config
    ELSE Append(config, [key |-> key, color |-> value])

\* config[key] = value : an existing key keeps its place, a new key goes last.
DictSet(config, key, value) ==
    IF key \in KeySet(config)
    THEN [i \in 1..Len(config) |->
            IF config[i].key = key THEN [key |-> key, color |-> value] ELSE config[i]]
    ELSE Append(config, [key |-> key, color |-> value])

\* The mutant of SortedByLenDesc: the sort is dropped (insertion order).
SortedByLenDesc_Unsorted(keys) == keys

\* The mutant of SortedByLenDesc: keys of equal length come out in the reverse
\* of their insertion order.
SortedByLenDesc_TiesReversed(keys) ==
    LET n == Len(keys)
        Before(i, j) == Len(keys[i]) > Len(keys[j])
                        \/ (Len(keys[i]) = Len(keys[j]) /\ i > j)
        Rank(i) == 1 + Cardinality({j \in 1..n : Before(j, i)})
    IN  [r \in 1..n |-> keys[CHOOSE i \in 1..n : Rank(i) = r]]

\* sorted(keys, key=len, reverse=True): a stable sort, so keys of equal
\* length keep their insertion order.  Rank(i) is the 1-based place of
\* keys[i] in the sorted list.
SortedByLenDesc(keys) ==
    LET n == Len(keys)
        Before(i, j) == Len(keys[i]) > Len(keys[j])
                        \/ (Len(keys[i]) = Len(keys[j]) /\ i < j)
        Rank(i) == 1 + Cardinality({j \in 1..n : Before(j, i)})
    IN  [r \in 1..n |-> keys[CHOOSE i \in 1..n : Rank(i) = r]]

IsWildcard(pattern) ==
    Contains(pattern, "*") \/ Contains(pattern, "?") \/ Contains(pattern, "[")

\* The wildcard loop of resolve_net_color over the sorted patterns.
RECURSIVE FirstWildcardMatch(_, _, _, _)
FirstWildcardMatch(name, config, sorted_patterns, i) ==
    IF i > Len(sorted_patterns) THEN None
    ELSE IF IsWildcard(sorted_patterns[i]) /\ fnmatch(name, sorted_patterns[i])
         THEN Lookup(config, sorted_patterns[i])
         ELSE FirstWildcardMatch(name, config, sorted_patterns, i + 1)

\* The mutant of resolve_net_color: the exact-match step is missing.
resolve_net_color_NoExact(name, config) ==
    IF Len(config) = 0 THEN None
    ELSE FirstWildcardMatch(name, config, SortedByLenDesc(Keys(config)), 1)

resolve_net_color(name, config) ==
    IF Len(config) = 0 THEN None
    ELSE IF name \in KeySet(config) THEN Lookup(config, name)
    ELSE FirstWildcardMatch(name, config, SortedByLenDesc(Keys(config)), 1)

-----------------------------------------------------------------------------
(* colors.py: net_name_to_css_class, net_layer_to_css_class *)

\* s.replace(old, new) for a one-character old.
RECURSIVE Replace(_, _, _)
Replace(s, old, new) ==
    IF ~Contains(s, old) THEN s
    ELSE (IF s[1] = old THEN new ELSE <<s[1]>>) \o Replace(Tail(s), old, new)

\* The replace calls of net_name_to_css_class, in the order of the code.
CSS_REPLACEMENTS ==
    <<
      [old |-> "/", new |-> <<"-">>],
      [old |-> "\\", new |-> <<"-">>],
      [old |-> "(", new |-> <<"-">>],
      [old |-> ")", new |-> <<"-">>],
      [old |-> " ", new |-> <<"-">>],
      [old |-> ".", new |-> <<"-">>],
      [old |-> "_", new |-> <<"-">>],
      [old |-> "{", new |-> <<"-">>],
      [old |-> "}", new |-> <<"-">>],
      [old |-> ":", new |-> <<"-">>],
      [old |-> "<", new |-> <<>>],
      [old |-> ">", new |-> <<>>],
      [old |-> "$", new |-> <<>>],
      [old |-> "+", new |-> <<"p", "l", "u", "s">>],
      [old |-> "=", new |-> <<"e", "q">>],
      [old |-> "@", new |-> <<"a", "t">>],
      [old |-> "#", new |-> <<"h", "a", "s", "h">>],
      [old |-> "%", new |-> <<"p", "c", "t">>],
      [old |-> "&", new |-> <<"a", "n", "d">>],
      [old |-> "*", new |-> <<"s", "t", "a", "r">>],
      [old |-> "!", new |-> <<"n", "o", "t">>],
      [old |-> "?", new |-> <<"q">>],
      [old |-> "~", new |-> <<"t", "i", "l", "d", "e">>],
      [old |-> "^", new |-> <<"h", "a", "t">>]
    >>

RECURSIVE ReplaceEach(_, _, _)
ReplaceEach(s, table, i) ==
    IF i > Len(table) THEN s
    ELSE ReplaceEach(Replace(s, table[i].old, table[i].new), table, i + 1)

\* re.sub(r"[^a-z0-9_-]", "", s)
CssKept == Range(LowerLetters) \cup Range(Digits) \cup {"_", "-"}

KeepCssChars(s) == SelectSeq(s, LAMBDA c : c \in CssKept)

\* re.sub(r"[-_]{2,}", "-", s): a run of two or more "-"/"_" becomes one "-".
RECURSIVE CollapseRuns(_)
CollapseRuns(s) ==
    IF Len(s) = 0 THEN <<>>
    ELSE IF s[1] \in {"-", "_"} THEN
        LET e == RunEnd(s, 1, {"-", "_"}) IN
        (IF e - 1 >= 2 THEN <<"-">> ELSE <<s[1]>>) \o CollapseRuns(Tail_(s, e))
    ELSE <<s[1]>> \o CollapseRuns(Tail(s))

\* Letters of other alphabets, written by code point: one upper-case letter
\* and its lower-case form.
NonAsciiUpper == "U+00C9"

NonAsciiLower == "U+00E9"

\* str.lower() of a net name.
LowerName(s) ==
    [i \in 1..Len(s) |-> IF s[i] = NonAsciiUpper THEN NonAsciiLower ELSE LowerChar(s[i])]

\* c.isalpha()
IsAlpha(c) ==
    c \in Range(LowerLetters) \cup Range(UpperLetters) \cup {NonAsciiUpper, NonAsciiLower}

NetPrefix == <<"n", "e", "t", "-">>

UnknownNet == <<"u", "n", "k", "n", "o", "w", "n", "-", "n", "e", "t">>

\* The mutant of net_name_to_css_class: the "net-" prefix of the result is
\* dropped.
net_name_to_css_class_NoPrefix(name) ==
    StripChars(CollapseRuns(KeepCssChars(
        ReplaceEach(LowerName(name), CSS_REPLACEMENTS, 1))), {"-", "_"})

net_name_to_css_class(name) ==
    LET replaced == ReplaceEach(LowerName(name), CSS_REPLACEMENTS, 1)
        stripped == StripChars(CollapseRuns(KeepCssChars(replaced)), {"-", "_"})
        prefixed == IF Len(stripped) > 0 /\ ~(IsAlpha(stripped[1]) \/ stripped[1] = "_")
                    THEN NetPrefix \o stripped ELSE stripped
        css_name == IF Len(prefixed) = 0 THEN UnknownNet ELSE prefixed
    IN  NetPrefix \o css_name

net_layer_to_css_class(name, layer) ==
    LET net_css   == net_name_to_css_class(name)
        lowered   == Lower(layer)
        layer_css == StripChars(
                        Replace(Replace(Replace(lowered, ".", <<"-">>), " ", <<"-">>),
                                "_", <<"-">>),
                        {"-"})
    IN  net_css \o <<"-">> \o layer_css

-----------------------------------------------------------------------------
(* layers.py: the layer table *)

\* The names of LAYER_DEFINITIONS other than the generated ones.
STANDARD_LAYERS ==
    { <<"F", ".", "C", "u">>,
      <<"B", ".", "C", "u">>,
      <<"F", ".", "S", "i", "l", "k", "S">>,
      <<"B", ".", "S", "i", "l", "k", "S">>,
      <<"F", ".", "M", "a", "s", "k">>,
      <<"B", ".", "M", "a", "s", "k">>,
      <<"F", ".", "P", "a", "s", "t", "e">>,
      <<"B", ".", "P", "a", "s", "t", "e">>,
      <<"F", ".", "F", "a", "b">>,
      <<"B", ".", "F", "a", "b">>,
      <<"F", ".", "C", "r", "t", "Y", "d">>,
      <<"B", ".", "C", "r", "t", "Y", "d">>,
      <<"F", ".", "A", "d", "h", "e", "s">>,
      <<"B", ".", "A", "d", "h", "e", "s">>,
      <<"E", "d", "g", "e", ".", "C", "u", "t", "s">>,
      <<"D", "w", "g", "s", ".", "U", "s", "e", "r">>,
      <<"C", "m", "t", "s", ".", "U", "s", "e", "r">>,
      <<"E", "c", "o", "1", ".", "U", "s", "e", "r">>,
      <<"E", "c", "o", "2", ".", "U", "s", "e", "r">>,
      <<"M", "a", "r", "g", "i", "n">> }

\* str(i) for 1 <= i <= 99.
DecimalText(i) ==
    IF i < 10 THEN <<Digits[i + 1]>> ELSE <<Digits[(i \div 10) + 1], Digits[(i % 10) + 1]>>

\* In1.Cu .. In30.Cu
INNER_COPPER_LAYERS ==
    {<<"I", "n">> \o DecimalText(i) \o <<".", "C", "u">> : i \in 1..30}

\* User.1 .. User.9
USER_LAYERS == {<<"U", "s", "e", "r", ".">> \o DecimalText(i) : i \in 1..9}

LAYER_DEFINITIONS == STANDARD_LAYERS \cup INNER_COPPER_LAYERS \cup USER_LAYERS

-----------------------------------------------------------------------------
(* The identifier sanitizer as a state machine: a net name is given, and a
   class is derived from it for a layer of the table. *)

\* The longest net name sanitized.
MaxCssNameLen == 3

\* An upper-case letter, a digit, the separators, a removed character, a
\* character replaced by a word, a letter of another alphabet.
CssNameChars == {"A", "1", "-", "_", "<", "+", NonAsciiUpper}

InitIdent ==
    /\ PipelineIdle
    /\ MergeIdle
    /\ ColorsIdle
    /\ net_name \in SeqsOf(CssNameChars, 0, MaxCssNameLen)
    /\ net_colors_config = <<>>
    /\ file_config = <<>>
    /\ overrides = <<>>
    /\ color = Idle
    /\ layer_name = None
    /\ css_class = Idle
    /\ active_nets = <<>>
    /\ copper_layers = <<>>
    /\ layers_done = 0
    /\ net_svgs = {}
    /\ error = NoError
    /\ pc = "named"

\* css_class = net_layer_to_css_class(net_name, layer_name)
NetLayerToCssClass ==
    /\ pc = "named"
    /\ \E layer \in LAYER_DEFINITIONS :
          /\ layer_name' = layer
          /\ css_class' = net_layer_to_css_class(net_name, layer)
    /\ pc' = "classed"
    /\ UNCHANGED <<colorVars, active_nets, copper_layers, layers_done, net_svgs, mergeVars, parseVars, data, pipeVars, recolorVars, error>>

NextIdent == NetLayerToCssClass

SpecIdent == InitIdent /\ [][NextIdent]_vars

\* ^[A-Za-z_][A-Za-z0-9_-]*$ , which a non-empty text must match.
IsCssIdentifier(s) ==
    LET letters == Range(LowerLetters) \cup Range(UpperLetters) IN
    /\ Len(s) > 0
    /\ s[1] \in letters \cup {"_"}
    /\ \A i \in 2..Len(s) : s[i] \in letters \cup Range(Digits) \cup {"_", "-"}

\* C7: for every net name the class of the name alone, and its class on every
\* layer of the layer table, is a non-empty identifier matching
\* ^[A-Za-z_][A-Za-z0-9_-]*$.
C7_IdentifierSafe ==
    /\ IsCssIdentifier(net_name_to_css_class(net_name))
    /\ pc = "classed" => IsCssIdentifier(css_class)

\* C7 witness: a name that sanitizes to a leading digit got its class on an
\* inner copper layer.
C7_Witness ==
    /\ pc = "classed"
    /\ net_name = <<"<", "1", "+">>
    /\ layer_name = <<"I", "n", "1", "2", ".", "C", "u">>
    /\ css_class = <<"n", "e", "t", "-", "n", "e", "t", "-", "1", "p", "l", "u", "s",
                     "-", "i", "n", "1", "2", "-", "c", "u">>

-----------------------------------------------------------------------------
(* The colour resolver as a state machine: a configuration is loaded, then a
   net name is resolved against it. *)

\* Canonical colours (#RRGGBB), written as the code writes them.
Red   == <<"#", "F", "F", "0", "0", "0", "0">>
Lime  == <<"#", "0", "0", "F", "F", "0", "0">>
Blue  == <<"#", "0", "0", "0", "0", "F", "F">>

\* The longest net name resolved.
MaxNameLen == 2

NameChars == {"A", "B"}

NetNames == SeqsOf(NameChars, 1, MaxNameLen)

\* Pattern keys: every text of up to three of these characters, and the
\* bracket forms (a class, a class of two, a class holding "]", unclosed
\* brackets).
PatternChars == {"A", "B", "*", "?"}

BracketPatterns ==
    { <<"[", "A", "]">>, <<"[", "A", "B", "]">>, <<"[", "]", "]">>,
      <<"[">>, <<"[", "A">>, <<"[", "]">>, <<"[", "A", "]", "*">> }

Patterns == SeqsOf(PatternChars, 1, 3) \cup BracketPatterns

ConfigColors == {Red, Blue}

Entries(P, C) == [key : P, color : C]

\* Dicts of up to two entries over patterns P and colours C (keys distinct).
ConfigsOver(P, C) ==
    {<<>>} \cup {<<e>> : e \in Entries(P, C)}
           \cup {c \in Entries(P, C) \X Entries(P, C) : c[1].key # c[2].key}

InitColor ==
    /\ PipelineIdle
    /\ MergeIdle
    /\ ColorsIdle
    /\ net_colors_config \in ConfigsOver(Patterns, ConfigColors)
    /\ file_config = net_colors_config
    /\ overrides = <<>>
    /\ net_name = None
    /\ color = Idle
    /\ pc = "loaded"
    /\ layer_name = None
    /\ css_class = Idle
    /\ active_nets = <<>>
    /\ copper_layers = <<>>
    /\ layers_done = 0
    /\ net_svgs = {}
    /\ error = NoError

\* color = resolve_net_color(net_name, net_colors_config)
Resolve ==
    /\ pc = "loaded"
    /\ \E name \in NetNames :
          /\ net_name' = name
          /\ color' = resolve_net_color(name, net_colors_config)
    /\ pc' = "resolved"
    /\ UNCHANGED <<net_colors_config, file_config, overrides, cssVars, mergeVars, parseVars, data, pipeVars, recolorVars, error>>

NextColor == Resolve

SpecColor == InitColor /\ [][NextColor]_vars

\* The wildcard keys of the dict that match the name.
MatchingWildcards(name, config) ==
    {k \in KeySet(config) : IsWildcard(k) /\ fnmatch(name, k)}

\* Every ordering of the dict's entries.
Reorderings(config) ==
    LET n == Len(config)
        perms == {f \in [1..n -> 1..n] : \A i, j \in 1..n : i # j => f[i] # f[j]}
    IN  {[i \in 1..n |-> config[f[i]]] : f \in perms}

\* C8: an exact key wins whatever wildcard also matches; a name that is no key
\* is coloured only through a matching key holding "*", "?" or "[", and gets
\* none when no such key matches or the dict is empty.
C8_ExactFirst ==
    pc = "resolved" =>
        /\ net_name \in KeySet(net_colors_config)
              => color = Lookup(net_colors_config, net_name)
        /\ net_name \notin KeySet(net_colors_config)
              => IF MatchingWildcards(net_name, net_colors_config) = {}
                 THEN color = None
                 ELSE \E k \in MatchingWildcards(net_name, net_colors_config) :
                         color = Lookup(net_colors_config, k)

\* C8 witness: the name is an exact key and a wildcard key of another colour
\* matches it too.
C8_Witness ==
    /\ pc = "resolved"
    /\ net_name \in KeySet(net_colors_config)
    /\ \E k \in MatchingWildcards(net_name, net_colors_config) :
          Lookup(net_colors_config, k) # Lookup(net_colors_config, net_name)

\* The longest matching wildcard keys.
LongestMatching(name, config) ==
    LET M == MatchingWildcards(name, config)
    IN  {k \in M : \A k2 \in M : Len(k2) <= Len(k)}

\* C9 as claimed: without an exact key the colour is that of a longest matching
\* wildcard, and it is the same under every insertion order of the entries.
C9_Original ==
    (pc = "resolved" /\ net_name \notin KeySet(net_colors_config)
        /\ MatchingWildcards(net_name, net_colors_config) # {}) =>
        /\ \E k \in LongestMatching(net_name, net_colors_config) :
              color = Lookup(net_colors_config, k)
        /\ \A c2 \in Reorderings(net_colors_config) :
              resolve_net_color(net_name, c2) = color

\* C9 amended: the colour is that of a longest matching wildcard; it is the same
\* under every insertion order when the longest matching wildcards all carry one
\* colour (in particular when there is one longest match).
C9_LongestWins ==
    (pc = "resolved" /\ net_name \notin KeySet(net_colors_config)
        /\ MatchingWildcards(net_name, net_colors_config) # {}) =>
        LET L == LongestMatching(net_name, net_colors_config) IN
        /\ \E k \in L : color = Lookup(net_colors_config, k)
        /\ (\A k1, k2 \in L :
               Lookup(net_colors_config, k1) = Lookup(net_colors_config, k2))
              => \A c2 \in Reorderings(net_colors_config) :
                    resolve_net_color(net_name, c2) = color

\* C9 witness: two wildcards of different length and colour match, the shorter
\* one inserted first, and the longer one's colour is returned.
C9_Witness ==
    /\ pc = "resolved"
    /\ Len(net_colors_config) = 2
    /\ net_name \notin KeySet(net_colors_config)
    /\ MatchingWildcards(net_name, net_colors_config) = KeySet(net_colors_config)
    /\ Len(net_colors_config[1].key) < Len(net_colors_config[2].key)
    /\ net_colors_config[1].color # net_colors_config[2].color
    /\ color = net_colors_config[2].color

\* The place in the dict of the first inserted of the keys.
FirstInserted(config, keys) ==
    CHOOSE i \in 1..Len(config) :
        /\ config[i].key \in keys
        /\ \A j \in 1..Len(config) : config[j].key \in keys => i <= j

\* C29: when the name is no key and several wildcards of one length are the
\* longest that match, the colour is that of the one inserted first; when
\* another of them carries a different colour, some insertion order of the
\* same entries gives a different colour.
C29_FirstInsertedOfEqualLength ==
    (pc = "resolved" /\ net_name \notin KeySet(net_colors_config)
        /\ Cardinality(LongestMatching(net_name, net_colors_config)) >= 2) =>
        LET L == LongestMatching(net_name, net_colors_config)
            first == net_colors_config[FirstInserted(net_colors_config, L)]
        IN  /\ color = first.color
            /\ (\E k \in L : Lookup(net_colors_config, k) # first.color)
                  => \E c2 \in Reorderings(net_colors_config) :
                        resolve_net_color(net_name, c2) # color

\* C29 witness: two wildcards of one length and of different colours match a
\* name that is no key, and the colour of the first inserted is returned.
C29_Witness ==
    /\ pc = "resolved"
    /\ Len(net_colors_config) = 2
    /\ net_name \notin KeySet(net_colors_config)
    /\ MatchingWildcards(net_name, net_colors_config) = KeySet(net_colors_config)
    /\ Len(net_colors_config[1].key) = Len(net_colors_config[2].key)
    /\ net_colors_config[1].color # net_colors_config[2].color
    /\ color = net_colors_config[1].color

-----------------------------------------------------------------------------
(* __main__.py: the --net-color overrides, applied to the loaded
   configuration before any net is resolved. *)

\* The most --net-color arguments of one run.
MaxOverrides == 1

CliPatterns ==
    SeqsOf({"A", "*"}, 1, 2) \cup { <<"B">>, <<"A", "B">> }

FileColors == {Red, Lime}

\* The colour texts of the arguments: a named colour, a padded lower-case
\* hexadecimal colour, and a text that is no colour.
CliColorTexts ==
    { <<"b", "l", "u", "e">>,
      <<" ", "#", "0", "0", "0", "0", "f", "f">>,
      <<"b", "o", "g", "u", "s">> }

\* The arguments: "name:colour", and the malformed ones (no colon, no name,
\* no colour).
NetColorArgs ==
    {k \o <<":">> \o t : k \in CliPatterns, t \in CliColorTexts}
        \cup { <<"A", "A">>, <<":", "b", "l", "u", "e">>, <<"A", "A", ":", " ">> }

\* s.find(c): the first position of c in s, 0 when there is none.
FindChar(s, c) ==
    IF Contains(s, c) THEN CHOOSE i \in 1..Len(s) : s[i] = c /\ \A j \in 1..(i - 1) : s[j] # c
    ELSE 0

InitCli ==
    /\ PipelineIdle
    /\ MergeIdle
    /\ ColorsIdle
    /\ net_colors_config \in ConfigsOver(CliPatterns, FileColors)
    /\ file_config = net_colors_config
    /\ overrides = <<>>
    /\ net_name = None
    /\ color = Idle
    /\ pc = "loaded"
    /\ layer_name = None
    /\ css_class = Idle
    /\ active_nets = <<>>
    /\ copper_layers = <<>>
    /\ layers_done = 0
    /\ net_svgs = {}
    /\ error = NoError

\* One turn of the loop over args.net_color: split at the first ":", strip
\* both halves, parse the colour, and store it under the name.  A malformed
\* argument or colour ends the run with exit status 1.
CliNetColor ==
    /\ pc = "loaded"
    /\ Len(overrides) < MaxOverrides
    /\ \E net_color_arg \in NetColorArgs :
          LET at    == FindChar(net_color_arg, ":")
              name  == Strip(SubSeq(net_color_arg, 1, at - 1))
              value == Strip(SubSeq(net_color_arg, at + 1, Len(net_color_arg)))
              parsed_color == parse_color(value)
          IN  IF at = 0 \/ Len(name) = 0 \/ Len(value) = 0 \/ parsed_color = ColorError
              THEN /\ pc' = "exit1"
                   /\ UNCHANGED <<net_colors_config, overrides>>
              ELSE /\ net_colors_config' = DictSet(net_colors_config, name, parsed_color)
                   /\ overrides' = Append(overrides, [key |-> name, color |-> parsed_color])
                   /\ pc' = pc
    /\ UNCHANGED <<file_config, net_name, color, cssVars, mergeVars, parseVars, data, pipeVars, recolorVars, error>>

NextCli == CliNetColor \/ Resolve

SpecCli == InitCli /\ [][NextCli]_vars

\* The colour the last override of key k carries.
LastOverride(k) ==
    LET i == CHOOSE i \in 1..Len(overrides) :
                 overrides[i].key = k /\ \A j \in (i + 1)..Len(overrides) : overrides[j].key # k
    IN  overrides[i].color

\* The example of the claim, over this model's names: file {B: #00FF00, A*: red}
\* and the override AA:blue.
ExampleFile == << [key |-> <<"B">>, color |-> Lime], [key |-> <<"A", "*">>, color |-> Red] >>

ExampleOverride == << [key |-> <<"A", "A">>, color |-> Blue] >>

\* C10: after the overrides the dict holds, for a key given on the command
\* line, the command line's colour, and for every other key of the file the
\* file's colour; a net that is no key and matches no wildcard key resolves to
\* none; file {B:#00FF00, A*:red} with override AA:blue gives B=#00FF00,
\* AA=#0000FF, #FF0000 for the other nets A* matches (AB) and none for any
\* other net.
C10_CliOverridesFile ==
    pc # "exit1" =>
        /\ KeySet(net_colors_config) = KeySet(file_config) \cup KeySet(overrides)
        /\ \A k \in KeySet(net_colors_config) :
              Lookup(net_colors_config, k) =
                 IF k \in KeySet(overrides) THEN LastOverride(k) ELSE Lookup(file_config, k)
        /\ (pc = "resolved" /\ net_name \notin KeySet(net_colors_config)
               /\ MatchingWildcards(net_name, net_colors_config) = {}) => color = None
        /\ (pc = "resolved" /\ file_config = ExampleFile /\ overrides = ExampleOverride) =>
              color = CASE net_name = <<"B">> -> Lime
                        [] net_name = <<"A", "A">> -> Blue
                        [] net_name # <<"A", "A">> /\ net_name[1] = "A" -> Red
                        [] OTHER -> None

\* C10 witness: a key of the file is given again on the command line with
\* another colour, and that net resolves to the command line's colour.
C10_Witness ==
    /\ pc = "resolved"
    /\ Len(overrides) = 1
    /\ overrides[1].key \in KeySet(file_config)
    /\ Lookup(file_config, overrides[1].key) # overrides[1].color
    /\ net_name = overrides[1].key
    /\ color = overrides[1].color

-----------------------------------------------------------------------------
(* svg_generator.py: CSS-class mode, one styled fragment per net and layer *)

\* The most nets active on the copper layers.
MaxActiveNets == 2

NO_NET == <<"<", "n", "o", "_", "n", "e", "t", ">">>

\* Net names as normalize_net_name leaves them: short names over an
\* upper-case and a lower-case letter, a name that ends with a separator, the
\* no-net sentinel, and a net that is named like the sentinel.
ActiveNetNames ==
    SeqsOf({"A", "a"}, 1, 2)
        \cup {<<"a", "-">>, NO_NET, <<"n", "o", "_", "n", "e", "t">>}

F_Cu == <<"F", ".", "C", "u">>

B_Cu == <<"B", ".", "C", "u">>

F_SilkS == <<"F", ".", "S", "i", "l", "k", "S">>

Edge_Cuts == <<"E", "d", "g", "e", ".", "C", "u", "t", "s">>

CopperLayerLists == {<<F_Cu>>, <<F_Cu, B_Cu>>}

\* Sequences over S without repetition, of length lo..hi.
DistinctSeqs(S, lo, hi) ==
    {q \in SeqsOf(S, lo, hi) : \A i, j \in 1..Len(q) : i # j => q[i] # q[j]}

\* The characters a file name replaces by "_".
UnsafeFileChars == {"/", "\\", "(", ")", " ", "<", ">", ":"}

SafeNetName(name) ==
    [i \in 1..Len(name) |-> IF name[i] \in UnsafeFileChars THEN "_" ELSE name[i]]

\* final_svg: net_{safe_net_name}_{layer_suffix}_styled.svg
FinalSvgName(name, layer) ==
    <<"n", "e", "t", "_">> \o SafeNetName(name) \o <<"_">>
        \o Replace(layer, ".", <<"_">>)
        \o <<"_", "s", "t", "y", "l", "e", "d", ".", "s", "v", "g">>

\* The mutant of CollisionCheck: no check is made.
CollisionCheck_Skipped(nets, layer, i, css_class_to_nets) == NoError

\* The collision check of one layer: the loop over active_nets that fills
\* css_class_to_nets.  The result is NoError, or the error raised at the first
\* net whose class another net already holds.
RECURSIVE CollisionCheck(_, _, _, _)
CollisionCheck(nets, layer, i, css_class_to_nets) ==
    IF i > Len(nets) THEN NoError
    ELSE LET cls == net_layer_to_css_class(nets[i], layer) IN
         IF \E e \in css_class_to_nets : e.css_class = cls
         THEN [kind |-> "collision",
               existing_net |-> (CHOOSE e \in css_class_to_nets : e.css_class = cls).net,
               net_name |-> nets[i],
               css_class |-> cls,
               layer_name |-> layer]
         ELSE CollisionCheck(nets, layer, i + 1,
                             css_class_to_nets \cup {[css_class |-> cls, net |-> nets[i]]})

InitCssMode ==
    /\ PipelineIdle
    /\ MergeIdle
    /\ ColorsIdle
    /\ active_nets \in DistinctSeqs(ActiveNetNames, 1, MaxActiveNets)
    /\ copper_layers \in CopperLayerLists
    /\ layers_done = 0
    /\ net_svgs = {}
    /\ error = NoError
    /\ net_name = None
    /\ layer_name = None
    /\ css_class = Idle
    /\ net_colors_config = <<>>
    /\ file_config = <<>>
    /\ overrides = <<>>
    /\ color = Idle
    /\ pc = "css_mode"

\* The mutant of GenerateIndividualLayer: the nets are exported first and the
\* collision check of the layer is made afterwards.
GenerateIndividualLayer_ExportFirst ==
    /\ pc = "css_mode"
    /\ layers_done < Len(copper_layers)
    /\ LET layer == copper_layers[layers_done + 1]
           check == CollisionCheck(active_nets, layer, 1, {})
       IN  /\ \E exported \in SUBSET (1..Len(active_nets)) :
                 net_svgs' = net_svgs \cup
                    {[net |-> active_nets[i],
                      layer |-> layer,
                      css_class |-> net_layer_to_css_class(active_nets[i], layer),
                      final_svg |-> FinalSvgName(active_nets[i], layer)] : i \in exported}
           /\ error' = check
           /\ pc' = IF check # NoError THEN "raised" ELSE pc
           /\ layers_done' = IF check # NoError THEN layers_done ELSE layers_done + 1
    /\ UNCHANGED <<colorVars, layer_name, css_class, active_nets, copper_layers, mergeVars, parseVars, data, pipeVars, recolorVars>>

\* _generate_individual_net_svgs_single_layer for the next copper layer: the
\* collision check, then one export per net.  An export that fails is caught
\* and leaves no fragment for that net; a collision ends the run.
GenerateIndividualLayer ==
    /\ pc = "css_mode"
    /\ layers_done < Len(copper_layers)
    /\ LET layer == copper_layers[layers_done + 1]
           check == CollisionCheck(active_nets, layer, 1, {})
       IN  IF check # NoError
           THEN /\ error' = check
                /\ pc' = "raised"
                /\ UNCHANGED <<layers_done, net_svgs>>
           ELSE /\ \E exported \in SUBSET (1..Len(active_nets)) :
                      net_svgs' = net_svgs \cup
                         {[net |-> active_nets[i],
                           layer |-> layer,
                           css_class |-> net_layer_to_css_class(active_nets[i], layer),
                           final_svg |-> FinalSvgName(active_nets[i], layer)] : i \in exported}
                /\ layers_done' = layers_done + 1
                /\ pc' = pc
                /\ UNCHANGED error
    /\ UNCHANGED <<colorVars, layer_name, css_class, active_nets, copper_layers, mergeVars, parseVars, data, pipeVars, recolorVars>>

NextCssMode == GenerateIndividualLayer

SpecCssMode == InitCssMode /\ [][NextCssMode]_vars

\* Two distinct active nets share their class on the layer.
Collide(layer) ==
    \E i, j \in 1..Len(active_nets) :
        /\ i # j
        /\ net_layer_to_css_class(active_nets[i], layer)
              = net_layer_to_css_class(active_nets[j], layer)

\* C6: when two distinct active nets share their class on a processed layer the
\* run ends with an error naming two distinct active nets and the class both
\* produce on that layer; no two fragments of one layer ever carry one class.
C6_CollisionIsFatal ==
    /\ \A k \in 1..Len(copper_layers) :
          (k <= layers_done => ~Collide(copper_layers[k]))
    /\ (pc = "css_mode" /\ layers_done < Len(copper_layers)) => error = NoError
    /\ pc = "raised" =>
          /\ error.kind = "collision"
          /\ error.layer_name = copper_layers[layers_done + 1]
          /\ error.existing_net # error.net_name
          /\ \E i, j \in 1..Len(active_nets) :
                active_nets[i] = error.existing_net /\ active_nets[j] = error.net_name
          /\ net_layer_to_css_class(error.existing_net, error.layer_name) = error.css_class
          /\ net_layer_to_css_class(error.net_name, error.layer_name) = error.css_class
          /\ \A f \in net_svgs : f.layer # error.layer_name
    /\ \A f, g \in net_svgs :
          (f.layer = g.layer /\ f.net # g.net) => f.css_class # g.css_class

\* C6 witness: two nets that differ only in letter case collide and the run
\* ended with the error naming both.
C6_Witness ==
    /\ pc = "raised"
    /\ active_nets = << <<"A">>, <<"a">> >>
    /\ error.existing_net = <<"A">>
    /\ error.net_name = <<"a">>
    /\ error.css_class = <<"n", "e", "t", "-", "a", "-", "f", "-", "c", "u">>

\* C30: two nets collide on one layer exactly when they collide on the first
\* layer of the run (stated at the start of the run: the nets never change),
\* whose check precedes every export; so a run whose active
\* nets hold a colliding pair never gets past its first layer, holds no fragment
\* at any time, and its only error is the one raised for the first layer.
C30_CheckBeforeExport ==
    LET first == Collide(copper_layers[1]) IN
    /\ (pc = "css_mode" /\ layers_done = 0) =>
          \A layer \in {F_Cu, B_Cu, F_SilkS, Edge_Cuts} : Collide(layer) <=> first
    /\ first =>
          /\ layers_done = 0
          /\ net_svgs = {}
          /\ pc = "raised" => error.layer_name = copper_layers[1]
    /\ pc = "raised" => first

\* C30 witness: a run over two layers whose nets collide ended at the first
\* layer without any fragment.
C30_Witness ==
    /\ pc = "raised"
    /\ Len(copper_layers) = 2
    /\ Collide(copper_layers[2])
    /\ error.layer_name = copper_layers[1]
    /\ layers_done = 0
    /\ net_svgs = {}

-----------------------------------------------------------------------------
(* svg_processor.py: merge_css_styles *)

Braces == {"{", "}"}

\* The end of the run of characters other than braces that starts at i.
RECURSIVE NonBraceEnd(_, _)
NonBraceEnd(s, i) ==
    IF i <= Len(s) /\ s[i] \notin Braces THEN NonBraceEnd(s, i + 1) ELSE i

\* re.findall(r"[^{}]+\{[^{}]*\}", s) from position i on: a non-empty run
\* without braces, an opening brace, a run without braces, a closing brace.
\* Both runs are greedy and end at a brace or at the end of the text, so a
\* match exists at i only with the longest runs; otherwise the search moves
\* on by one character.
RECURSIVE FindAllRules(_, _)
FindAllRules(s, i) ==
    IF i > Len(s) THEN <<>>
    ELSE LET open  == NonBraceEnd(s, i)
             close == NonBraceEnd(s, open + 1)
         IN  IF /\ open > i
                /\ open <= Len(s)
                /\ s[open] = "{"
                /\ close <= Len(s)
                /\ s[close] = "}"
             THEN <<SubSeq(s, i, close)>> \o FindAllRules(s, close + 1)
             ELSE FindAllRules(s, i + 1)

\* The mutant of AddRule: every rule is appended, seen or not.
AddRule_Always(all_rules, raw_rule) == Append(all_rules, Strip(raw_rule))

\* The body of the inner loop: the stripped rule is appended unless it is
\* empty or was seen before (seen_rules holds exactly the rules of all_rules).
AddRule(all_rules, raw_rule) ==
    LET rule == Strip(raw_rule) IN
    IF Len(rule) > 0 /\ rule \notin Range(all_rules)
    THEN Append(all_rules, rule)
    ELSE all_rules

RECURSIVE AddRules(_, _, _)
AddRules(all_rules, rules, k) ==
    IF k > Len(rules) THEN all_rules
    ELSE AddRules(AddRule(all_rules, rules[k]), rules, k + 1)

\* The outer loop over css_styles: a blank block is skipped.
RECURSIVE AllRules(_, _, _)
AllRules(styles, n, all_rules) ==
    IF n > Len(styles) THEN all_rules
    ELSE IF Len(Strip(styles[n])) = 0
         THEN AllRules(styles, n + 1, all_rules)
         ELSE AllRules(styles, n + 1,
                       AddRules(all_rules, FindAllRules(styles[n], 1), 1))

\* sep.join(parts)
RECURSIVE Join(_, _)
Join(parts, sep) ==
    IF Len(parts) = 0 THEN <<>>
    ELSE IF Len(parts) = 1 THEN parts[1]
    ELSE parts[1] \o sep \o Join(Tail(parts), sep)

merge_css_styles(styles) ==
    IF Len(styles) = 0 THEN <<>>
    ELSE Join(AllRules(styles, 1, <<>>), <<"\n">>)

-----------------------------------------------------------------------------
(* merge_css_styles as a state machine: blocks are merged, then the result is
   merged again as the only block. *)

\* The most pieces of text in one CSS block, and the most blocks in a call.
MaxBlockPieces == 2

MaxBlocks == 2

\* The pieces blocks are made of: a rule, a rule with a blank selector, and a
\* stray closing brace followed by the start of a selector.
CssPieces == {<<"a", "{", "}">>, <<" ", "{", "b", "}">>, <<"}", "c">>}

\* parts[1] \o parts[2] \o ...
RECURSIVE Flatten(_)
Flatten(parts) == IF Len(parts) = 0 THEN <<>> ELSE parts[1] \o Flatten(Tail(parts))

CssBlocks == {Flatten(q) : q \in SeqsOf(CssPieces, 0, MaxBlockPieces)}

InitCssMerge ==
    /\ PipelineIdle
    /\ ColorsIdle
    /\ css_styles \in SeqsOf(CssBlocks, 0, MaxBlocks)
    /\ merged_css = Idle
    /\ remerged_css = Idle
    /\ svg_files = <<>>
    /\ base_svg = Idle
    /\ forced = Idle
    /\ output_file = Idle
    /\ net_colors_config = <<>>
    /\ file_config = <<>>
    /\ overrides = <<>>
    /\ net_name = None
    /\ color = Idle
    /\ layer_name = None
    /\ css_class = Idle
    /\ active_nets = <<>>
    /\ copper_layers = <<>>
    /\ layers_done = 0
    /\ net_svgs = {}
    /\ error = NoError
    /\ pc = "css"

\* merged_css = merge_css_styles(css_styles)
MergeCssStyles ==
    /\ pc = "css"
    /\ merged_css' = merge_css_styles(css_styles)
    /\ pc' = "css_merged"
    /\ UNCHANGED <<colorVars, cssVars, parseVars, data, pipeVars, recolorVars, css_styles, remerged_css, svg_files, base_svg,
                   forced, output_file, error>>

\* remerged_css = merge_css_styles([merged_css])
RemergeCssStyles ==
    /\ pc = "css_merged"
    /\ remerged_css' = merge_css_styles(<<merged_css>>)
    /\ pc' = "css_remerged"
    /\ UNCHANGED <<colorVars, cssVars, parseVars, data, pipeVars, recolorVars, css_styles, merged_css, svg_files, base_svg,
                   forced, output_file, error>>

NextCssMerge == MergeCssStyles \/ RemergeCssStyles

SpecCssMerge == InitCssMerge /\ [][NextCssMerge]_vars

\* The lines of a text: the pieces between line feeds.
RECURSIVE Lines(_)
Lines(text) ==
    IF Len(text) = 0 THEN <<>>
    ELSE IF ~Contains(text, "\n") THEN <<text>>
    ELSE LET at == CHOOSE i \in 1..Len(text) :
                       text[i] = "\n" /\ \A j \in 1..(i - 1) : text[j] # "\n"
         IN  <<SubSeq(text, 1, at - 1)>> \o Lines(SubSeq(text, at + 1, Len(text)))

\* The rules of all input blocks, in order of occurrence, repeats included.
RECURSIVE InputRules(_)
InputRules(styles) ==
    IF Len(styles) = 0 THEN <<>>
    ELSE LET found == FindAllRules(styles[1], 1)
         IN  [k \in 1..Len(found) |-> Strip(found[k])] \o InputRules(Tail(styles))

\* The position of the first occurrence of x in q.
FirstOccurrence(q, x) == CHOOSE i \in 1..Len(q) : q[i] = x /\ \A j \in 1..(i - 1) : q[j] # x

\* The merged text lists every rule of the input once, in order of first
\* occurrence.
OrderPreservingDedup ==
    LET rules  == InputRules(css_styles)
        merged == Lines(merged_css)
    IN  /\ Range(merged) = Range(rules)
        /\ \A i, j \in 1..Len(merged) : i # j => merged[i] # merged[j]
        /\ \A i, j \in 1..Len(merged) :
              i < j => FirstOccurrence(rules, merged[i]) < FirstOccurrence(rules, merged[j])
        /\ Len(merged) <= Len(rules)

\* The first rule of the merged text has an empty selector.
FirstSelectorEmpty == Len(merged_css) > 0 /\ merged_css[1] = "{"

\* C3 as stated: the merged text is the order-preserving de-duplication of the
\* rules of the input blocks, and merging the merged text again returns it.
C3_Original ==
    /\ pc \in {"css_merged", "css_remerged"} => OrderPreservingDedup
    /\ pc = "css_remerged" => remerged_css = merged_css

\* C3: the merged text is the order-preserving de-duplication of the rules of
\* the input blocks; merging the merged text again returns it unless its first
\* rule has an empty selector, and then exactly that first rule is lost.
C3_DedupInOrder ==
    /\ pc \in {"css_merged", "css_remerged"} => OrderPreservingDedup
    /\ pc = "css_remerged" =>
          IF FirstSelectorEmpty
          THEN Lines(remerged_css) = Tail(Lines(merged_css))
          ELSE remerged_css = merged_css

\* C3 witness: a rule occurs in both blocks and once in the merged text, which
\* the second merge returned unchanged.
C3_Witness ==
    /\ pc = "css_remerged"
    /\ css_styles = << <<"a", "{", "}", " ", "{", "b", "}">>, <<" ", "{", "b", "}", "a", "{", "}">> >>
    /\ merged_css = <<"a", "{", "}", "\n", "{", "b", "}">>
    /\ remerged_css = merged_css

-----------------------------------------------------------------------------
(* svg_processor.py: merge_svg_files *)

\* root.attrib.get(name) of an attribute the root element does not carry (None).
Absent == "None"

\* A path at which there is no file.
MissingFile == [exists |-> FALSE]

\* base_svg = None
NoBase == [supplied |-> FALSE]

\* reference_width, reference_height and reference_viewbox before the loop.
NoReference == [width |-> Absent, height |-> Absent, viewBox |-> Absent]

\* No forced width, height or viewBox is passed.
NoForced == [width |-> Absent, height |-> Absent, viewBox |-> Absent]

\* A file without a style element.
NoStyle == None

\* An SVG file: the width, height and viewBox attributes of its root element,
\* the text of the style element that follows the header (or NoStyle), and the
\* rest of the document as a sequence of pieces of text.
SvgFile(width, height, viewBox, style, body) ==
    [exists |-> TRUE, width |-> width, height |-> height, viewBox |-> viewBox,
     style |-> style, body |-> body]

\* The pieces of text a body is made of: the start of a group tag, the end tag
\* of a group, a drawing element, a rectangle filled with
\* DEFAULT_BACKGROUND_DARK, a style element with a bare start tag, a line feed.
G_OPEN == "<g"

G_CLOSE == "</g>"

ELEMENT == "<path/>"

BACKGROUND_RECT == "<rect fill=\"#282A36\"/>"

STYLE_ELEMENT == "<style>.x{}</style>"

LINE_FEED == "\n"

\* The text inside STYLE_ELEMENT.
STYLE_ELEMENT_CSS == <<".", "x", "{", "}">>

Dims(f) == [width |-> f.width, height |-> f.height, viewBox |-> f.viewBox]

\* extract_css_styles: the stripped text of the first style element, or "".
extract_css_styles(f) ==
    IF f.style # NoStyle THEN Strip(f.style)
    ELSE IF Contains(f.body, STYLE_ELEMENT) THEN Strip(STYLE_ELEMENT_CSS)
    ELSE <<>>

\* ET.parse accepts the file: every group end closes a group that is open, and
\* no group is left open.
RECURSIVE GroupsBalanced(_, _, _)
GroupsBalanced(body, i, depth) ==
    IF i > Len(body) THEN depth = 0
    ELSE IF body[i] = G_OPEN THEN GroupsBalanced(body, i + 1, depth + 1)
    ELSE IF body[i] = G_CLOSE THEN depth > 0 /\ GroupsBalanced(body, i + 1, depth - 1)
    ELSE GroupsBalanced(body, i + 1, depth)

WellFormed(f) == GroupsBalanced(f.body, 1, 0)

\* all_files: base_svg when supplied and present, then the fragments.
AllFiles(files, base) ==
    (IF base # NoBase /\ base.exists THEN <<base>> ELSE <<>>) \o files

\* The validation loop over all_files from position i on.  A file that does
\* not exist is skipped and one that ET.parse rejects ends the call; while
\* reference_width is None the file becomes the reference; otherwise a file
\* that differs raises the mismatch error.
RECURSIVE ValidateDimensions(_, _, _)
ValidateDimensions(all_files, i, reference) ==
    IF i > Len(all_files) THEN [error |-> NoError, reference |-> reference]
    ELSE IF ~all_files[i].exists THEN ValidateDimensions(all_files, i + 1, reference)
    ELSE IF ~WellFormed(all_files[i])
         THEN [error |-> [kind |-> "parse_error", svg_file |-> i], reference |-> reference]
    ELSE IF reference.width = Absent
         THEN ValidateDimensions(all_files, i + 1, Dims(all_files[i]))
    ELSE IF Dims(all_files[i]) # reference
         THEN [error |-> [kind |-> "dimension_mismatch",
                          svg_file |-> i,
                          expected |-> reference,
                          got |-> Dims(all_files[i])],
               reference |-> reference]
    ELSE ValidateDimensions(all_files, i + 1, reference)

\* The CSS blocks of the existing fragments that have one.
RECURSIVE CollectCssStyles(_, _)
CollectCssStyles(files, i) ==
    IF i > Len(files) THEN <<>>
    ELSE IF files[i].exists /\ Len(extract_css_styles(files[i])) > 0
         THEN <<extract_css_styles(files[i])>> \o CollectCssStyles(files, i + 1)
         ELSE CollectCssStyles(files, i + 1)

\* content.find("<g"): the first position of a group start, 0 when none.
FindGroupStart(body) ==
    IF Contains(body, G_OPEN)
    THEN CHOOSE i \in 1..Len(body) : body[i] = G_OPEN /\ \A j \in 1..(i - 1) : body[j] # G_OPEN
    ELSE 0

\* content.rfind("</g>") + 4: the last position of a group end (inclusive), 0
\* when there is none (the slice then ends inside the header, before start).
FindGroupEnd(body) ==
    IF Contains(body, G_CLOSE)
    THEN CHOOSE i \in 1..Len(body) :
             body[i] = G_CLOSE /\ \A j \in (i + 1)..Len(body) : body[j] # G_CLOSE
    ELSE 0

\* group_content = content[start:end]
GroupContent(body) == SubSeq(body, FindGroupStart(body), FindGroupEnd(body))

\* What one fragment adds to svg_content: nothing without a group start or
\* when the span holds the background fill or a bare style tag, else the span
\* and a line feed.
FragmentContent(f) ==
    IF FindGroupStart(f.body) = 0 THEN <<>>
    ELSE IF \/ Contains(GroupContent(f.body), BACKGROUND_RECT)
            \/ Contains(GroupContent(f.body), STYLE_ELEMENT)
         THEN <<>>
         ELSE GroupContent(f.body) \o <<LINE_FEED>>

\* The mutant of SvgContent: the spans are written last fragment first.
RECURSIVE SvgContent_Reversed(_, _)
SvgContent_Reversed(files, i) ==
    IF i > Len(files) THEN <<>>
    ELSE SvgContent_Reversed(files, i + 1)
            \o (IF files[i].exists THEN FragmentContent(files[i]) ELSE <<>>)

\* The loop over svg_files that appends the spans, from position i on.
RECURSIVE SvgContent(_, _)
SvgContent(files, i) ==
    IF i > Len(files) THEN <<>>
    ELSE (IF files[i].exists THEN FragmentContent(files[i]) ELSE <<>>)
            \o SvgContent(files, i + 1)

\* The width, height and viewBox of the header: a forced value where one is
\* passed, else the reference value.
HeaderDims(reference, forced_dims) ==
    [width   |-> IF forced_dims.width # Absent THEN forced_dims.width ELSE reference.width,
     height  |-> IF forced_dims.height # Absent THEN forced_dims.height ELSE reference.height,
     viewBox |-> IF forced_dims.viewBox # Absent THEN forced_dims.viewBox
                 ELSE reference.viewBox]

\* merge_svg_files(svg_files, output_file, base_svg, forced...): the error
\* raised, or NoError and the document written to output_file.
merge_svg_files(files, base, forced_dims) ==
    IF Len(files) = 0
    THEN [error |-> [kind |-> "no_svg_files_to_merge"], written |-> FALSE]
    ELSE
    LET validated == ValidateDimensions(AllFiles(files, base), 1, NoReference)
        header    == HeaderDims(validated.reference, forced_dims)
        css       == merge_css_styles(CollectCssStyles(files, 1))
    IN  IF validated.error # NoError
        THEN [error |-> validated.error, written |-> FALSE]
        ELSE IF validated.reference.viewBox = Absent
        THEN [error |-> [kind |-> "no_valid_svg_files"], written |-> FALSE]
        ELSE [error |-> NoError,
              written |-> TRUE,
              document |-> SvgFile(header.width, header.height, header.viewBox,
                                   IF Len(css) > 0 THEN css ELSE NoStyle,
                                   SvgContent(files, 1))]

-----------------------------------------------------------------------------
(* merge_svg_files as a state machine: one call on a list of fragments. *)

\* Every variable of the other components at rest.
OthersIdle ==
    /\ css_styles = <<>>
    /\ merged_css = Idle
    /\ remerged_css = Idle
    /\ net_colors_config = <<>>
    /\ file_config = <<>>
    /\ overrides = <<>>
    /\ net_name = None
    /\ color = Idle
    /\ layer_name = None
    /\ css_class = Idle
    /\ active_nets = <<>>
    /\ copper_layers = <<>>
    /\ layers_done = 0
    /\ net_svgs = {}

\* merge_svg_files(svg_files, output_file, base_svg, forced...)
MergeSvgFiles ==
    /\ pc = "merge"
    /\ LET result == merge_svg_files(svg_files, base_svg, forced)
       IN  /\ error' = result.error
           /\ output_file' = IF result.written THEN result.document ELSE output_file
    /\ pc' = "merged"
    /\ UNCHANGED <<colorVars, cssVars, parseVars, data, pipeVars, recolorVars, css_styles, merged_css, remerged_css, svg_files,
                   base_svg, forced>>

NextMerge == MergeSvgFiles

\* The most fragments in a call.
MaxFiles == 2

Widths == {Absent, "100mm", "200mm"}

Heights == {Absent, "100mm"}

ViewBoxes == {Absent, "0 0 100 100", "0 0 200 100"}

\* A body with one group that holds one element.
PlainBody == <<G_OPEN, ELEMENT, G_CLOSE>>

\* The fragments of the calls that vary the dimensions: a missing file, or a
\* plain file with any combination of present and absent attributes.
DimFiles ==
    {MissingFile} \cup
    {SvgFile(w, h, v, NoStyle, PlainBody) : w \in Widths, h \in Heights, v \in ViewBoxes}

\* base_svg: not supplied, supplied but missing, or one of three files.
BaseChoices ==
    {NoBase, MissingFile,
     SvgFile("100mm", "100mm", "0 0 100 100", NoStyle, PlainBody),
     SvgFile("200mm", "100mm", "0 0 200 100", NoStyle, PlainBody),
     SvgFile(Absent, "100mm", "0 0 100 100", NoStyle, PlainBody)}

\* The forced values get_pcb_forced_svg_params computes for a small board.
ForcedSmallBoard ==
    [width |-> "20.000mm", height |-> "10.000mm", viewBox |-> "0 0 20.000 10.000"]

InitMerge ==
    /\ PipelineIdle
    /\ OthersIdle
    /\ ColorsIdle
    /\ svg_files \in SeqsOf(DimFiles, 0, MaxFiles)
    /\ base_svg \in BaseChoices
    /\ forced \in {NoForced, ForcedSmallBoard}
    /\ output_file = MissingFile
    /\ error = NoError
    /\ pc = "merge"

SpecMerge == InitMerge /\ [][NextMerge]_vars

\* The positions of the existing files of a list.
Existing(files) == {i \in 1..Len(files) : files[i].exists}

\* The least element of a non-empty set of numbers.
Min(S) == CHOOSE x \in S : \A y \in S : x <= y

\* C1 as stated: the reference is the first existing file of
\* [base_svg] + fragments; when a later existing file differs from it in width,
\* height or viewBox (an absent attribute is a value too) the call fails with
\* the mismatch error naming a differing file and no output file is written.
C1_StrictValidation ==
    pc = "merged" =>
        LET all_files == AllFiles(svg_files, base_svg)
            differing == {i \in Existing(all_files) :
                              Dims(all_files[i]) # Dims(all_files[Min(Existing(all_files))])}
        IN  (Len(svg_files) > 0 /\ differing # {}) =>
                /\ error.kind = "dimension_mismatch"
                /\ error.svg_file \in differing
                /\ error.expected = Dims(all_files[Min(Existing(all_files))])
                /\ output_file = MissingFile

\* C4 as stated: when the fragment list is empty or none of the listed files
\* exists the call fails and no output file is written.
C4_NoUsableFragments ==
    (pc = "merged" /\ Existing(svg_files) = {}) =>
        /\ error # NoError
        /\ output_file = MissingFile

\* C5 as stated: with forced values the header of the written document carries
\* exactly the forced values, and fragments whose dimensions differ from each
\* other still make the call fail.
C5_ForcedHeader ==
    (pc = "merged" /\ forced # NoForced) =>
        /\ error = NoError => (output_file.exists /\ Dims(output_file) = forced)
        /\ (\E i, j \in Existing(svg_files) : Dims(svg_files[i]) # Dims(svg_files[j])) =>
              (error # NoError /\ output_file = MissingFile)

-----------------------------------------------------------------------------
(* merge_svg_files on fragments of one size whose bodies and styles vary. *)

\* The most pieces of text in a body.
MaxBodyLen == 3

\* Bodies over the group tags and an element, balanced or not, and four bodies
\* with a background rectangle or a bare style tag inside or before the span.
Bodies ==
    SeqsOf({G_OPEN, G_CLOSE, ELEMENT}, 0, MaxBodyLen) \cup
    {<<G_OPEN, BACKGROUND_RECT, G_CLOSE>>,
     <<BACKGROUND_RECT, G_OPEN, ELEMENT, G_CLOSE>>,
     <<G_OPEN, STYLE_ELEMENT, G_CLOSE>>,
     <<STYLE_ELEMENT, G_OPEN, G_CLOSE>>}

ContentStyles == {NoStyle, <<"a", "{", "}">>}

ContentFiles ==
    {SvgFile("100mm", "100mm", "0 0 100 100", style, body) :
        style \in ContentStyles, body \in Bodies}

InitMergeContent ==
    /\ PipelineIdle
    /\ OthersIdle
    /\ ColorsIdle
    /\ svg_files \in {<<f>> : f \in ContentFiles} \cup (ContentFiles \X ContentFiles)
    /\ base_svg = NoBase
    /\ forced = NoForced
    /\ output_file = MissingFile
    /\ error = NoError
    /\ pc = "merge"

SpecMergeContent == InitMergeContent /\ [][NextMerge]_vars

\* Every fragment exists and is an XML document, all have one width, height
\* and viewBox, and each has a non-empty span from its first group start to its
\* last group end.
NonEmptySpans ==
    /\ \A i \in 1..Len(svg_files) : svg_files[i].exists /\ WellFormed(svg_files[i])
    /\ \A i, j \in 1..Len(svg_files) : Dims(svg_files[i]) = Dims(svg_files[j])
    /\ \A i \in 1..Len(svg_files) :
          /\ FindGroupStart(svg_files[i].body) > 0
          /\ FindGroupEnd(svg_files[i].body) > FindGroupStart(svg_files[i].body)

\* The spans of all fragments in the order supplied, a line feed after each.
SpansInOrder ==
    Flatten([i \in 1..Len(svg_files) |-> GroupContent(svg_files[i].body) \o <<LINE_FEED>>])

\* No span holds the background fill or a bare style tag.
NoSkippedSpan ==
    \A i \in 1..Len(svg_files) :
        /\ ~Contains(GroupContent(svg_files[i].body), BACKGROUND_RECT)
        /\ ~Contains(GroupContent(svg_files[i].body), STYLE_ELEMENT)

\* C2 as stated: the written document holds the spans of all N fragments,
\* each once, in the order supplied.
C2_Original ==
    (pc = "merged" /\ NonEmptySpans) =>
        /\ error = NoError
        /\ output_file.exists
        /\ output_file.body = SpansInOrder

\* C2: when no span holds the background fill or a bare style tag, the written
\* document holds the spans of all N fragments, each once, in the order
\* supplied; a span that holds one of the two is left out.
C2_SpansInOrder ==
    (pc = "merged" /\ NonEmptySpans) =>
        /\ error = NoError
        /\ output_file.exists
        /\ NoSkippedSpan => output_file.body = SpansInOrder
        /\ output_file.body =
              Flatten([i \in 1..Len(svg_files) |->
                          IF \/ Contains(GroupContent(svg_files[i].body), BACKGROUND_RECT)
                             \/ Contains(GroupContent(svg_files[i].body), STYLE_ELEMENT)
                          THEN <<>>
                          ELSE GroupContent(svg_files[i].body) \o <<LINE_FEED>>])

\* C2 witness: two fragments with different spans were merged and the
\* document holds the first span, then the second.
C2_Witness ==
    /\ pc = "merged"
    /\ NonEmptySpans
    /\ NoSkippedSpan
    /\ Len(svg_files) = 2
    /\ svg_files[1].body = <<G_OPEN, G_CLOSE, ELEMENT>>
    /\ svg_files[2].body = <<G_OPEN, ELEMENT, G_CLOSE>>
    /\ output_file.body = <<G_OPEN, G_CLOSE, LINE_FEED, G_OPEN, ELEMENT, G_CLOSE, LINE_FEED>>

-----------------------------------------------------------------------------
(* colors.py: parse_color as a state machine.  A value is parsed, and a
   colour that results is parsed again. *)

\* Python values: a str with its text, and values of other types.
PyStr(text) == [type |-> "str", text |-> text]

NonStrings == {[type |-> "NoneType"], [type |-> "int"], [type |-> "list"], [type |-> "dict"]}

\* parse_color(value): a value that is not a str is refused before anything
\* else is looked at.
ParseColorOf(value) ==
    IF value.type # "str" THEN ColorError ELSE parse_color(value.text)

\* The most blanks before and after a colour text.
MaxPad == 1

\* str(n) for a natural number, and for an integer.
RECURSIVE NatText(_)
NatText(n) ==
    IF n < 10 THEN <<Digits[n + 1]>>
    ELSE NatText(n \div 10) \o <<Digits[(n % 10) + 1]>>

IntText(n) == IF n < 0 THEN <<"-">> \o NatText(0 - n) ELSE NatText(n)

\* Channel values inside, at the ends of and outside 0..255.
ChannelValues == {0 - 1, 0, 255, 256}

\* The texts of a channel: integers, and a text that is no number.
ChannelTexts == {IntText(n) : n \in ChannelValues} \cup {<<"a">>}

\* The texts of an alpha component: numbers, and texts that are no number.
AlphaTexts == {<<"1">>, <<"0", ".", "5">>, <<"1", ".", "2", ".", "3">>, <<"x">>}

\* Two, three or four components.
ComponentLists ==
    (ChannelTexts \X ChannelTexts)
        \cup (ChannelTexts \X ChannelTexts \X ChannelTexts)
        \cup (ChannelTexts \X ChannelTexts \X ChannelTexts \X AlphaTexts)

\* prefix(c1,c2,...): the components joined by sep between open and close.
FunctionText(prefix, open, sep, close, comps) == prefix \o open \o Join(comps, sep) \o close

\* rgb(...) and rgba(...) texts, written compactly or with white space.
RgbTexts ==
    {FunctionText(prefix, <<"(">>, <<",">>, <<")">>, comps) :
        prefix \in {<<"r", "g", "b">>, <<"r", "g", "b", "a">>}, comps \in ComponentLists}
    \cup
    {FunctionText(prefix, <<" ", "(", " ">>, <<" ", ",", "\t">>, <<" ", ")">>, comps) :
        prefix \in {<<"r", "g", "b">>, <<"r", "g", "b", "a">>}, comps \in ComponentLists}

\* Two hex digits, in either letter case.
HexPairs == {<<"0", "0">>, <<"f", "F">>, <<"A", "1">>}

\* #RRGGBB and #RRGGBBAA texts, and texts that are almost one.
HexTexts ==
    {<<"#">> \o Flatten(q) : q \in SeqsOf(HexPairs, 3, 4)}
    \cup {<<"#", "1", "2", "3", "4", "5">>,
          <<"#", "1", "2", "3", "4", "5", "6", "7">>,
          <<"#", "G", "G", "0", "0", "0", "0">>,
          <<"F", "F", "0", "0", "0", "0">>,
          <<"#">>}

\* name.capitalize()
Capitalize(name) == <<UpperChar(name[1])>> \o SubSeq(name, 2, Len(name))

\* Every palette name in three letter cases, and names outside the palette.
NameTexts ==
    UNION {{e.name, Upper(e.name), Capitalize(e.name)} : e \in NAMED_COLORS}
    \cup {<<"r", "e", "d", "i", "s", "h">>, <<"r", "g", "b">>, <<"h", "e", "x">>, <<>>}

Blanks == SeqsOf({" "}, 0, MaxPad)

ColorTexts ==
    {left \o text \o right :
        left \in Blanks, right \in Blanks, text \in RgbTexts \cup HexTexts \cup NameTexts}

\* Every variable of the components other than parse_color at rest.
NotParsing ==
    /\ MergeIdle
    /\ data = Idle
    /\ svg_file = Idle
    /\ current_color = Idle
    /\ old_color = Idle
    /\ new_color = Idle
    /\ fallback_color = Idle
    /\ net_colors_config = <<>>
    /\ file_config = <<>>
    /\ overrides = <<>>
    /\ net_name = None
    /\ color = Idle
    /\ layer_name = None
    /\ css_class = Idle
    /\ active_nets = <<>>
    /\ copper_layers = <<>>
    /\ layers_done = 0
    /\ net_svgs = {}
    /\ error = NoError

InitParse ==
    /\ PipelineIdle
    /\ NotParsing
    /\ color_input \in {PyStr(text) : text \in ColorTexts} \cup NonStrings
    /\ parsed = Idle
    /\ reparsed = Idle
    /\ pc = "parse"

\* parsed = parse_color(color_input)
ParseColor ==
    /\ pc = "parse"
    /\ parsed' = ParseColorOf(color_input)
    /\ pc' = "parsed"
    /\ UNCHANGED <<colorVars, cssVars, mergeVars, color_input, reparsed, data, pipeVars, recolorVars,
                   error>>

\* reparsed = parse_color(parsed)
ReparseColor ==
    /\ pc = "parsed"
    /\ parsed # ColorError
    /\ reparsed' = ParseColorOf(PyStr(parsed))
    /\ pc' = "reparsed"
    /\ UNCHANGED <<colorVars, cssVars, mergeVars, color_input, parsed, data, pipeVars, recolorVars,
                   error>>

NextParse == ParseColor \/ ReparseColor

SpecParse == InitParse /\ [][NextParse]_vars

\* text.split(sep) for a one-character separator.
RECURSIVE SplitOn(_, _)
SplitOn(text, sep) ==
    IF ~Contains(text, sep) THEN <<text>>
    ELSE LET at == CHOOSE i \in 1..Len(text) :
                       text[i] = sep /\ \A j \in 1..(i - 1) : text[j] # sep
         IN  <<SubSeq(text, 1, at - 1)>> \o SplitOn(SubSeq(text, at + 1, Len(text)), sep)

\* The text is prefix, white space, "(", anything, ")".
IsFunctionText(s, prefix) ==
    /\ Len(s) >= Len(prefix) + 2
    /\ SubSeq(s, 1, Len(prefix)) = prefix
    /\ At(s, SkipWs(s, Len(prefix) + 1), "(")
    /\ s[Len(s)] = ")"

\* The stripped components between the parentheses of a function text.
Components(s, prefix) ==
    LET inner == SplitOn(SubSeq(s, SkipWs(s, Len(prefix) + 1) + 1, Len(s) - 1), ",")
    IN  [k \in 1..Len(inner) |-> Strip(inner[k])]

IsNatText(t) == Len(t) > 0 /\ \A i \in 1..Len(t) : t[i] \in Range(Digits)

\* An integer in decimal notation, with or without a sign.
IsIntText(t) == IsNatText(t) \/ (Len(t) > 1 /\ t[1] = "-" /\ IsNatText(Tail(t)))

IntValue(t) == IF t[1] = "-" THEN 0 - ToInt(Tail(t)) ELSE ToInt(t)

\* A decimal number: digits, with at most one point among them.
IsNumberText(t) ==
    /\ \E i \in 1..Len(t) : t[i] \in Range(Digits)
    /\ \A i \in 1..Len(t) : t[i] \in Range(Digits) \cup {"."}
    /\ \A i, j \in 1..Len(t) : (t[i] = "." /\ t[j] = ".") => i = j

\* The stripped text of the value parsed, or <<>> when it is no str.
InputText == IF color_input.type = "str" THEN Strip(color_input.text) ELSE <<>>

\* The input is rgb(r,g,b) or rgba(r,g,b,a) with integers r, g and b.
IsIntegerTriple ==
    \/ /\ IsFunctionText(InputText, <<"r", "g", "b">>)
       /\ Len(Components(InputText, <<"r", "g", "b">>)) = 3
       /\ \A k \in 1..3 : IsIntText(Components(InputText, <<"r", "g", "b">>)[k])
    \/ /\ IsFunctionText(InputText, <<"r", "g", "b", "a">>)
       /\ Len(Components(InputText, <<"r", "g", "b", "a">>)) = 4
       /\ \A k \in 1..3 : IsIntText(Components(InputText, <<"r", "g", "b", "a">>)[k])

\* The three channel values of such an input.
Channels ==
    LET comps == IF IsFunctionText(InputText, <<"r", "g", "b">>)
                 THEN Components(InputText, <<"r", "g", "b">>)
                 ELSE Components(InputText, <<"r", "g", "b", "a">>)
    IN  [k \in 1..3 |-> IntValue(comps[k])]

\* C11: every colour parse_color returns has exactly 7 characters, "#" and six
\* upper-case hex digits; for a hex input these are its first six digits, the
\* alpha digits discarded; parsing the result again returns the result.
C11_CanonicalAndIdempotent ==
    /\ (pc \in {"parsed", "reparsed"} /\ parsed # ColorError) =>
          /\ Len(parsed) = 7
          /\ parsed[1] = "#"
          /\ \A i \in 2..7 : parsed[i] \in Range(HexDigits)
          /\ (Len(InputText) = 9 /\ InputText[1] = "#") =>
                parsed = Upper(SubSeq(InputText, 1, 7))
    /\ pc = "reparsed" => reparsed = parsed

\* C11 witness: a padded hex colour with alpha digits in mixed case was parsed
\* to its six upper-case digits, and parsed again to the same.
C11_Witness ==
    /\ pc = "reparsed"
    /\ color_input = PyStr(<<" ", "#", "f", "F", "A", "1", "0", "0", "f", "F", " ">>)
    /\ parsed = <<"#", "F", "F", "A", "1", "0", "0">>
    /\ reparsed = parsed

\* C12: rgb(r,g,b) and rgba(r,g,b,a) with integers r, g, b of which at least
\* one is outside 0..255 is refused with ColorError, never turned into a colour.
C12_OutOfRangeFails ==
    (pc = "parsed" /\ IsIntegerTriple /\ \E k \in 1..3 : Channels[k] \notin 0..MAX_RGB_VALUE) =>
        parsed = ColorError

\* C12 witness: rgb(255,256,0), whose green channel is one above the range,
\* was refused.
C12_Witness ==
    /\ pc = "parsed"
    /\ color_input = PyStr(<<"r", "g", "b", "(", "2", "5", "5", ",", "2", "5", "6", ",", "0", ")">>)
    /\ parsed = ColorError

\* C13 as stated: a value that is no str, an empty or blank text, and rgb() or
\* rgba() text with the wrong number of components, a channel that is no
\* natural number or an alpha that is no well-formed number is refused.
C13_RejectsMalformed ==
    pc = "parsed" =>
        /\ color_input.type # "str" => parsed = ColorError
        /\ (color_input.type = "str" /\ Len(InputText) = 0) => parsed = ColorError
        /\ (IsFunctionText(InputText, <<"r", "g", "b">>) /\
            LET comps == Components(InputText, <<"r", "g", "b">>)
            IN  Len(comps) # 3 \/ \E k \in 1..Len(comps) : ~IsNatText(comps[k]))
              => parsed = ColorError
        /\ (IsFunctionText(InputText, <<"r", "g", "b", "a">>) /\
            LET comps == Components(InputText, <<"r", "g", "b", "a">>)
            IN  \/ Len(comps) # 4
                \/ \E k \in 1..Len(comps) : k <= 3 /\ ~IsNatText(comps[k])
                \/ ~IsNumberText(comps[Len(comps)]))
              => parsed = ColorError

-----------------------------------------------------------------------------
(* colors.py: load_color_config *)

\* JSON values that are no text: an object with its items in order, null, a
\* number, and (for a key of an object) the absence of the key.
PyDict(items) == [type |-> "dict", items |-> items]

JsonNull == [type |-> "NoneType"]

JsonNumber == [type |-> "int"]

JsonMissing == [type |-> "missing"]

\* The file cannot be opened or is not JSON.
UnreadableFile == [shape |-> "unreadable"]

\* A project file: net_settings with classes, netclass_patterns and net_colors.
ProjectFile(classes, netclass_patterns, net_colors) ==
    [shape |-> "net_settings", classes |-> classes,
     netclass_patterns |-> netclass_patterns, net_colors |-> net_colors]

\* The custom format: a top-level net_colors.
CustomFile(net_colors) == [shape |-> "net_colors", net_colors |-> net_colors]

\* The legacy format: the object itself maps net names to colours.
LegacyFile(items) == [shape |-> "legacy", net_colors |-> PyDict(items)]

\* netclass_colors: the pcb_color of every class that has one, by name.
RECURSIVE NetclassColors(_, _, _)
NetclassColors(classes, i, netclass_colors) ==
    IF i > Len(classes) THEN netclass_colors
    ELSE IF classes[i].pcb_color # JsonMissing
         THEN NetclassColors(classes, i + 1,
                             DictSet(netclass_colors, classes[i].name, classes[i].pcb_color))
         ELSE NetclassColors(classes, i + 1, netclass_colors)

\* The loop over netclass_patterns: a pattern of a class that has a colour is
\* stored with that colour.
RECURSIVE ApplyPatterns(_, _, _, _)
ApplyPatterns(netclass_patterns, i, netclass_colors, net_colors_raw) ==
    IF i > Len(netclass_patterns) THEN net_colors_raw
    ELSE IF netclass_patterns[i].netclass \in KeySet(netclass_colors)
         THEN ApplyPatterns(netclass_patterns, i + 1, netclass_colors,
                            DictSet(net_colors_raw, netclass_patterns[i].pattern,
                                    Lookup(netclass_colors, netclass_patterns[i].netclass)))
         ELSE ApplyPatterns(netclass_patterns, i + 1, netclass_colors, net_colors_raw)

\* The mutant of DictUpdate: a key the dict already holds keeps its value.
RECURSIVE DictUpdate_KeepExisting(_, _, _)
DictUpdate_KeepExisting(config, items, i) ==
    IF i > Len(items) THEN config
    ELSE DictUpdate_KeepExisting(DictSet_KeepExisting(config, items[i].key, items[i].color),
                                 items, i + 1)

\* config.update(items), from item i on.
RECURSIVE DictUpdate(_, _, _)
DictUpdate(config, items, i) ==
    IF i > Len(items) THEN config
    ELSE DictUpdate(DictSet(config, items[i].key, items[i].color), items, i + 1)

\* The entries of the patterns of the classes that have a colour.
ClassDerived(file) ==
    ApplyPatterns(file.netclass_patterns, 1, NetclassColors(file.classes, 1, <<>>), <<>>)

\* net_colors_raw, as a value: the class-derived entries updated with
\* net_settings.net_colors, or the top-level net_colors, or the object itself.
NetColorsRaw(file) ==
    IF file.shape = "net_settings"
    THEN IF file.net_colors.type = "dict"
         THEN PyDict(DictUpdate(ClassDerived(file), file.net_colors.items, 1))
         ELSE PyDict(ClassDerived(file))
    ELSE file.net_colors

\* The mutant of SkipsValue: no value is skipped.
SkipsValue_Never(value) == FALSE

\* The loop over net_colors_raw skips a value that is no str, blank, or that
\* parse_color refuses.
SkipsValue(value) ==
    \/ value.type # "str"
    \/ Len(Strip(value.text)) = 0
    \/ parse_color(value.text) = ColorError

\* converted_colors: the entries that are not skipped, parsed.
RECURSIVE ConvertedColors(_, _)
ConvertedColors(items, i) ==
    IF i > Len(items) THEN <<>>
    ELSE IF SkipsValue(items[i].color) THEN ConvertedColors(items, i + 1)
    ELSE <<[key |-> items[i].key, color |-> ParseColorOf(items[i].color)]>>
            \o ConvertedColors(items, i + 1)

\* load_color_config: the error raised for a file that cannot be read, else the
\* dict returned.
load_color_config(file) ==
    IF file.shape = "unreadable"
    THEN [error |-> [kind |-> "color_error"], config |-> <<>>]
    ELSE IF NetColorsRaw(file).type # "dict"
    THEN [error |-> NoError, config |-> <<>>]
    ELSE [error |-> NoError, config |-> ConvertedColors(NetColorsRaw(file).items, 1)]

-----------------------------------------------------------------------------
(* load_color_config as a state machine: a file is loaded, then a net name is
   resolved against the result. *)

\* The most entries of a net_colors object.
MaxConfigEntries == 1

\* Keys: a net name and three wildcard patterns that match it.
ConfigKeys == {<<"A", "B">>, <<"A", "*">>, <<"A", "?">>, <<"A", "B", "*">>}

\* Values: a padded hex colour, a text that is no colour, a blank text, and a
\* number.
ConfigValues ==
    {PyStr(<<" ", "#", "0", "0", "0", "0", "f", "f">>),
     PyStr(<<"b", "o", "g", "u", "s">>), PyStr(<<" ">>), JsonNumber}

\* Objects of up to MaxConfigEntries entries with distinct keys.
ConfigObjects ==
    {q \in SeqsOf([key : ConfigKeys, color : ConfigValues], 0, MaxConfigEntries) :
        \A i, j \in 1..Len(q) : i # j => q[i].key # q[j].key}

\* The classes of a project: none, or class c with a colour name, without
\* pcb_color, or with a number for it.
ClassLists ==
    {<<>>,
     <<[name |-> <<"c">>, pcb_color |-> PyStr(<<"l", "i", "m", "e">>)]>>,
     <<[name |-> <<"c">>, pcb_color |-> JsonMissing]>>,
     <<[name |-> <<"c">>, pcb_color |-> JsonNumber]>>}

\* The netclass_patterns of a project: none, or one pattern of class c.
PatternLists ==
    SeqsOf([netclass : {<<"c">>}, pattern : ConfigKeys], 0, 1)

ConfigFiles ==
    {UnreadableFile}
    \cup {ProjectFile(classes, netclass_patterns, net_colors) :
             classes \in ClassLists, netclass_patterns \in PatternLists,
             net_colors \in {PyDict(o) : o \in ConfigObjects} \cup {JsonNull, JsonMissing}}
    \cup {CustomFile(net_colors) :
             net_colors \in {PyDict(o) : o \in ConfigObjects} \cup {JsonNull, JsonNumber}}
    \cup {LegacyFile(o) : o \in ConfigObjects}

InitConfig ==
    /\ PipelineIdle
    /\ MergeIdle
    /\ data \in ConfigFiles
    /\ net_colors_config = <<>>
    /\ file_config = <<>>
    /\ overrides = <<>>
    /\ net_name = None
    /\ color = Idle
    /\ color_input = Idle
    /\ parsed = Idle
    /\ reparsed = Idle
    /\ svg_file = Idle
    /\ current_color = Idle
    /\ old_color = Idle
    /\ new_color = Idle
    /\ fallback_color = Idle
    /\ layer_name = None
    /\ css_class = Idle
    /\ active_nets = <<>>
    /\ copper_layers = <<>>
    /\ layers_done = 0
    /\ net_svgs = {}
    /\ error = NoError
    /\ pc = "config"

\* net_colors_config = load_color_config(args.net_color_config); a ColorError
\* ends the run.
LoadColorConfig ==
    /\ pc = "config"
    /\ LET loaded == load_color_config(data)
       IN  /\ error' = loaded.error
           /\ net_colors_config' = loaded.config
           /\ file_config' = loaded.config
           /\ pc' = IF loaded.error = NoError THEN "loaded" ELSE "exit1"
    /\ UNCHANGED <<net_name, color, overrides, cssVars, mergeVars, parseVars, data, pipeVars, recolorVars>>

NextConfig == LoadColorConfig \/ Resolve

SpecConfig == InitConfig /\ [][NextConfig]_vars

-----------------------------------------------------------------------------
(* Claims about load_color_config *)

\* The file has been loaded and is a project file with a net_colors object.
LoadedProject ==
    /\ pc \in {"loaded", "resolved"}
    /\ data.shape = "net_settings"
    /\ data.net_colors.type = "dict"

\* The explicit entries of a project file whose value is a colour.
ExplicitEntries ==
    {data.net_colors.items[i] : i \in {j \in 1..Len(data.net_colors.items) :
        /\ data.net_colors.items[j].color.type = "str"
        /\ ParseColorOf(data.net_colors.items[j].color) # ColorError}}

\* The entries derived from the classes and their patterns.
DerivedEntries == {ClassDerived(data)[i] : i \in 1..Len(ClassDerived(data))}

\* An entry applies to a net: its key is the net's name or a wildcard that
\* matches it.
Applies(entry, name) ==
    entry.key = name \/ (IsWildcard(entry.key) /\ fnmatch(name, entry.key))

\* For the same key the returned map holds the explicit colour.
ExplicitKeyWins ==
    LoadedProject =>
        \A e \in ExplicitEntries :
            /\ e.key \in KeySet(file_config)
            /\ Lookup(file_config, e.key) = ParseColorOf(e.color)

DerivedOnlyKeys == KeySet(file_config) \ {e.key : e \in ExplicitEntries}

RawEntries ==
    IF data.shape # "unreadable" /\ NetColorsRaw(data).type = "dict"
    THEN {NetColorsRaw(data).items[i] : i \in 1..Len(NetColorsRaw(data).items)}
    ELSE {}

\* The value of an entry is a non-string, blank, or no colour.
InvalidValue(value) ==
    \/ value.type # "str"
    \/ \A i \in 1..Len(value.text) : value.text[i] \in WhiteSpace
    \/ ParseColorOf(value) = ColorError

\* #RRGGBB in upper case.
IsCanonicalColor(c) ==
    /\ Len(c) = 7
    /\ c[1] = "#"
    /\ \A i \in 2..7 : c[i] \in Range(HexDigits)

\* C15: a file that can be read never makes load_color_config fail; an entry
\* whose value is a non-string, blank or unparseable is omitted, and every
\* other entry is returned under its key with its canonical #RRGGBB colour.
C15_InvalidEntriesSkipped ==
    (pc # "config" /\ data.shape # "unreadable") =>
        /\ error = NoError
        /\ KeySet(file_config) \subseteq {e.key : e \in RawEntries}
        /\ \A e \in RawEntries :
              IF InvalidValue(e.color)
              THEN e.key \notin KeySet(file_config)
              ELSE /\ e.key \in KeySet(file_config)
                   /\ Lookup(file_config, e.key) = ParseColorOf(e.color)
                   /\ IsCanonicalColor(Lookup(file_config, e.key))

\* C15 witness: a project whose class colour is a number and whose explicit
\* entry is a padded hex colour has been loaded: one entry omitted, one kept.
C15_Witness ==
    /\ pc = "loaded"
    /\ error = NoError
    /\ \E e \in RawEntries : e.color = JsonNumber
    /\ \E e \in RawEntries :
          /\ e.color.type = "str"
          /\ e.key \in KeySet(file_config)
          /\ Lookup(file_config, e.key) = Blue

-----------------------------------------------------------------------------
(* colors.py: the SVG files the recolouring functions read *)

\* s has sub at position i.
StartsWithAt(s, i, sub) ==
    i + Len(sub) - 1 <= Len(s) /\ SubSeq(s, i, i + Len(sub) - 1) = sub

\* s.find(sub) from position i on: the first position of sub, or 0.
RECURSIVE FindFrom(_, _, _)
FindFrom(s, sub, i) ==
    IF i + Len(sub) - 1 > Len(s) THEN 0
    ELSE IF StartsWithAt(s, i, sub) THEN i
    ELSE FindFrom(s, sub, i + 1)

\* s.replace(old, new) for a text old that is not empty.
RECURSIVE ReplaceText(_, _, _)
ReplaceText(s, old, new) ==
    IF FindFrom(s, old, 1) = 0 THEN s
    ELSE SubSeq(s, 1, FindFrom(s, old, 1) - 1) \o new
            \o ReplaceText(SubSeq(s, FindFrom(s, old, 1) + Len(old), Len(s)), old, new)

\* An attribute of an element, as written in the file: name="value".
Attr(name, value) == [name |-> name, value |-> value]

\* A piece of the document below the root element: an element with its
\* attributes in the order written and the text it encloses, or a line feed
\* between elements (tag "#text").
Node(tag, attrs, text) == [tag |-> tag, attrs |-> attrs, text |-> text]

\* <desc>K</desc>
DescNode == Node("desc", <<>>, <<"K">>)

\* <style>css</style>
StyleNode(css) == Node("style", <<>>, css)

\* "\n"
LineFeedNode == Node("#text", <<>>, <<"\n">>)

\* A file that exists: the pieces between the root's start tag and its end tag,
\* and whether the end tag is there (a file without it is cut short).
SvgDocument(complete, nodes) == [exists |-> TRUE, complete |-> complete, nodes |-> nodes]

HasAttr(node, name) == \E i \in 1..Len(node.attrs) : node.attrs[i].name = name

\* elem.get(name) of an attribute the element carries.
GetAttr(node, name) ==
    node.attrs[CHOOSE i \in 1..Len(node.attrs) : node.attrs[i].name = name].value

\* ET.parse accepts the file: the root is closed and no element carries the
\* same attribute twice.
Parses(file) ==
    /\ file.complete
    /\ \A n \in 1..Len(file.nodes) :
          \A i, j \in 1..Len(file.nodes[n].attrs) :
              i # j => file.nodes[n].attrs[i].name # file.nodes[n].attrs[j].name

-----------------------------------------------------------------------------
(* colors.py: find_copper_color_in_svg *)

NON_COPPER_COLORS == {<<"#", "0", "0", "0", "0", "0", "0">>, <<"#", "F", "F", "F", "F", "F", "F">>}

\* re.match(r"^#[0-9A-Fa-f]{6}$", s)
IsHex6(s) == Len(s) = 7 /\ s[1] = "#" /\ \A i \in 2..7 : IsHexChar(s[i])

\* fill not in NON_COPPER_COLORS
FillAttrIsCopper(fill) == fill \notin NON_COPPER_COLORS

\* The fill attribute of an element: its upper-case text when it is set, not
\* in NON_COPPER_COLORS and a 6-digit hex colour, else None.
FillAttrColor(node) ==
    IF /\ HasAttr(node, "fill")
       /\ Len(GetAttr(node, "fill")) > 0
       /\ FillAttrIsCopper(GetAttr(node, "fill"))
       /\ IsHex6(GetAttr(node, "fill"))
    THEN Upper(GetAttr(node, "fill"))
    ELSE None

\* re.search(r"fill:\s*#([0-9A-Fa-f]{6})", style) from position i on: the
\* position of the "#" of the first match, or 0.
RECURSIVE FillSearch(_, _)
FillSearch(style, i) ==
    IF i > Len(style) THEN 0
    ELSE IF /\ StartsWithAt(style, i, <<"f", "i", "l", "l", ":">>)
            /\ SkipWs(style, i + 5) + 6 <= Len(style)
            /\ IsHex6(SubSeq(style, SkipWs(style, i + 5), SkipWs(style, i + 5) + 6))
         THEN SkipWs(style, i + 5)
         ELSE FillSearch(style, i + 1)

\* The style attribute of an element: the first fill colour the regular
\* expression finds in it, in upper case, unless that is in NON_COPPER_COLORS.
StyleFillColor(node) ==
    IF ~HasAttr(node, "style") THEN None
    ELSE IF FindFrom(GetAttr(node, "style"), <<"f", "i", "l", "l", ":">>, 1) = 0 THEN None
    ELSE IF FillSearch(GetAttr(node, "style"), 1) = 0 THEN None
    ELSE IF Upper(SubSeq(GetAttr(node, "style"), FillSearch(GetAttr(node, "style"), 1),
                         FillSearch(GetAttr(node, "style"), 1) + 6)) \in NON_COPPER_COLORS
    THEN None
    ELSE Upper(SubSeq(GetAttr(node, "style"), FillSearch(GetAttr(node, "style"), 1),
                      FillSearch(GetAttr(node, "style"), 1) + 6))

\* The loop over root.iter() from node i on.
RECURSIVE FirstCopperColor(_, _)
FirstCopperColor(nodes, i) ==
    IF i > Len(nodes) THEN None
    ELSE IF FillAttrColor(nodes[i]) # None THEN FillAttrColor(nodes[i])
    ELSE IF StyleFillColor(nodes[i]) # None THEN StyleFillColor(nodes[i])
    ELSE FirstCopperColor(nodes, i + 1)

\* find_copper_color_in_svg: None for a file that is missing or that ET.parse
\* rejects.
find_copper_color_in_svg(file) ==
    IF ~file.exists THEN None
    ELSE IF ~Parses(file) THEN None
    ELSE FirstCopperColor(file.nodes, 1)

-----------------------------------------------------------------------------
(* colors.py: validate_hex_color, change_svg_color *)

validate_hex_color(hex_color) == IsHex6(hex_color)

\* int(pair, 16) for two hex digits.
HexPairValue(pair) ==
    16 * (IndexOf(HexDigits, UpperChar(pair[1])) - 1) + (IndexOf(HexDigits, UpperChar(pair[2])) - 1)

\* f"rgb({r},{g},{b})" for the three channels of a 6-digit hex colour.
RgbOf(hex) ==
    <<"r", "g", "b", "(">> \o NatText(HexPairValue(SubSeq(hex, 2, 3))) \o <<",">>
        \o NatText(HexPairValue(SubSeq(hex, 4, 5))) \o <<",">>
        \o NatText(HexPairValue(SubSeq(hex, 6, 7))) \o <<")">>

\* content.replace(old, new) on the text of the file: on every attribute value
\* and every enclosed text (no tag or attribute name holds "#" or "(").
ReplaceInNode(node, old, new) ==
    Node(node.tag,
         [i \in 1..Len(node.attrs) |->
             Attr(node.attrs[i].name, ReplaceText(node.attrs[i].value, old, new))],
         ReplaceText(node.text, old, new))

ReplaceInContent(nodes, old, new) ==
    [n \in 1..Len(nodes) |-> ReplaceInNode(nodes[n], old, new)]

\* The three replacements of change_svg_color, in the order of the code.
ReplaceColor(nodes, old, new) ==
    ReplaceInContent(
        ReplaceInContent(
            ReplaceInContent(nodes, Lower(old), Lower(new)),
            Upper(Lower(old)), Upper(Lower(new))),
        RgbOf(old), RgbOf(new))

\* change_svg_color: the error raised, and the file written (NotWritten when
\* the call ends before it writes).
NotWritten == [exists |-> FALSE]

change_svg_color(file, old, new) ==
    IF ~validate_hex_color(old)
    THEN [error |-> [kind |-> "color_error", what |-> "old_color"], output |-> NotWritten]
    ELSE IF ~validate_hex_color(new)
    THEN [error |-> [kind |-> "color_error", what |-> "new_color"], output |-> NotWritten]
    ELSE IF ~file.exists
    THEN [error |-> [kind |-> "color_error", what |-> "read"], output |-> NotWritten]
    ELSE [error |-> NoError,
          output |-> SvgDocument(file.complete, ReplaceColor(file.nodes, old, new))]

-----------------------------------------------------------------------------
(* colors.py: apply_css_class_to_svg *)

\* re.search(prop + r"\s*(?:old_hex|old_hex_upper|old_rgb)", style,
\* re.IGNORECASE): the style holds the property followed by the colour.
HoldsColor(style, prop, current) ==
    \E i \in 1..Len(style) :
        /\ StartsWithAt(Lower(style), i, prop)
        /\ \E alt \in {Lower(current), Lower(Upper(current)), Lower(RgbOf(current))} :
              StartsWithAt(Lower(style), SkipWs(style, i + Len(prop)), alt)

\* [^;]+ from position i: the first position after the run.
RECURSIVE NotSemicolonEnd(_, _)
NotSemicolonEnd(s, i) ==
    IF i <= Len(s) /\ s[i] # ";" THEN NotSemicolonEnd(s, i + 1) ELSE i

\* re.sub(prop + r"\s*[^;]+;?", "", style) from position i on.
RECURSIVE RemoveDeclarations(_, _, _)
RemoveDeclarations(style, prop, i) ==
    IF i > Len(style) THEN <<>>
    ELSE IF StartsWithAt(style, i, prop) /\ NotSemicolonEnd(style, i + Len(prop)) > i + Len(prop)
         THEN RemoveDeclarations(style, prop,
                  IF At(style, NotSemicolonEnd(style, i + Len(prop)), ";")
                  THEN NotSemicolonEnd(style, i + Len(prop)) + 1
                  ELSE NotSemicolonEnd(style, i + Len(prop)))
         ELSE <<style[i]>> \o RemoveDeclarations(style, prop, i + 1)

\* re.sub(r";\s*;", ";", style) from position i on.
RECURSIVE CollapseSemicolons(_, _)
CollapseSemicolons(style, i) ==
    IF i > Len(style) THEN <<>>
    ELSE IF style[i] = ";" /\ At(style, SkipWs(style, i + 1), ";")
         THEN <<";">> \o CollapseSemicolons(style, SkipWs(style, i + 1) + 1)
         ELSE <<style[i]>> \o CollapseSemicolons(style, i + 1)

\* The style_content a replace callback returns for the property it removes.
StyleContent(style, prop) ==
    Strip(StripChars(CollapseSemicolons(RemoveDeclarations(style, prop, 1), 1), {";"}))

\* replace_fill_with_class over the attributes of an element, from attribute
\* i on: a style attribute that holds the fill in the current colour loses
\* its fill declarations and is followed by a class attribute.
RECURSIVE FillPass(_, _, _, _)
FillPass(attrs, i, current, class) ==
    IF i > Len(attrs) THEN <<>>
    ELSE IF attrs[i].name = "style" /\ HoldsColor(attrs[i].value, <<"f", "i", "l", "l", ":">>, current)
         THEN <<Attr("style", StyleContent(attrs[i].value, <<"f", "i", "l", "l", ":">>)), Attr("class", class)>>
                 \o FillPass(attrs, i + 1, current, class)
         ELSE <<attrs[i]>> \o FillPass(attrs, i + 1, current, class)

\* "class=" in match.group(0), where the match is style="...".
MatchHoldsClass(style) ==
    FindFrom(<<"s", "t", "y", "l", "e", "=", "\"">> \o style \o <<"\"">>, <<"c", "l", "a", "s", "s", "=">>, 1) # 0

\* replace_stroke_with_class over the attributes of an element.
RECURSIVE StrokePass(_, _, _, _)
StrokePass(attrs, i, current, class) ==
    IF i > Len(attrs) THEN <<>>
    ELSE IF attrs[i].name = "style" /\ HoldsColor(attrs[i].value, <<"s", "t", "r", "o", "k", "e", ":">>, current)
         THEN (IF MatchHoldsClass(attrs[i].value)
               THEN <<Attr("style", StyleContent(attrs[i].value, <<"s", "t", "r", "o", "k", "e", ":">>))>>
               ELSE <<Attr("style", StyleContent(attrs[i].value, <<"s", "t", "r", "o", "k", "e", ":">>)),
                      Attr("class", class)>>)
                 \o StrokePass(attrs, i + 1, current, class)
         ELSE <<attrs[i]>> \o StrokePass(attrs, i + 1, current, class)

\* The two re.sub calls over the content.
ClassPasses(nodes, current, class) ==
    [n \in 1..Len(nodes) |->
        Node(nodes[n].tag,
             StrokePass(FillPass(nodes[n].attrs, 1, current, class), 1, current, class),
             nodes[n].text)]

\* The text between <style> and </style> of style_section.
StyleSectionCss(class, hex_color) ==
    <<"\n", ".">> \o class \o <<" ", "{", "\n", " ", " ", " ", " ", "f", "i", "l", "l", ":", " ">> \o hex_color \o <<";", "\n", " ", " ", " ", " ", "s", "t", "r", "o", "k", "e", ":", " ">> \o hex_color \o <<";", "\n", "}", "\n">>

\* content.find("</desc>"): the place of the first desc element, or 0.
DescEnd(nodes) ==
    IF \E n \in 1..Len(nodes) : nodes[n].tag = "desc"
    THEN CHOOSE n \in 1..Len(nodes) :
            nodes[n].tag = "desc" /\ \A m \in 1..(n - 1) : nodes[m].tag # "desc"
    ELSE 0

\* The style section is inserted after </desc>, behind a line feed.
InsertStyleSection(nodes, class, hex_color) ==
    IF DescEnd(nodes) = 0 THEN nodes
    ELSE SubSeq(nodes, 1, DescEnd(nodes))
            \o <<LineFeedNode, StyleNode(StyleSectionCss(class, hex_color))>>
            \o SubSeq(nodes, DescEnd(nodes) + 1, Len(nodes))

\* The class name: per layer when layer_name is given.
CssClassFor(name, layer) ==
    IF layer # None /\ Len(layer) > 0
    THEN net_layer_to_css_class(name, layer)
    ELSE net_name_to_css_class(name)

\* The mutant of apply_css_class_to_svg: the style section is written whether
\* or not a colour is detected.
apply_css_class_to_svg_AlwaysStyled(file, name, fallback, layer) ==
    IF parse_color(fallback) = ColorError
    THEN [error |-> [kind |-> "color_error", what |-> "fallback_color"],
          output |-> NotWritten, current_color |-> Idle]
    ELSE IF ~file.exists
    THEN [error |-> [kind |-> "FileNotFoundError", what |-> "copy2"],
          output |-> NotWritten, current_color |-> None]
    ELSE [error |-> NoError,
          output |-> SvgDocument(file.complete,
                        InsertStyleSection(file.nodes, CssClassFor(name, layer),
                                           parse_color(fallback))),
          current_color |-> find_copper_color_in_svg(file)]

\* apply_css_class_to_svg: the error raised, the file written, and the
\* colour detected.
apply_css_class_to_svg(file, name, fallback, layer) ==
    IF parse_color(fallback) = ColorError
    THEN [error |-> [kind |-> "color_error", what |-> "fallback_color"],
          output |-> NotWritten, current_color |-> Idle]
    ELSE IF find_copper_color_in_svg(file) = None
    THEN IF file.exists
         THEN [error |-> NoError, output |-> file, current_color |-> None]
         ELSE [error |-> [kind |-> "FileNotFoundError", what |-> "copy2"],
               output |-> NotWritten, current_color |-> None]
    ELSE [error |-> NoError,
          output |-> SvgDocument(file.complete,
                        InsertStyleSection(
                            ClassPasses(file.nodes, find_copper_color_in_svg(file),
                                        CssClassFor(name, layer)),
                            CssClassFor(name, layer), parse_color(fallback))),
          current_color |-> find_copper_color_in_svg(file)]

-----------------------------------------------------------------------------
(* The recolouring functions as a state machine: one call on one file. *)

\* The most drawing elements of a file.
MaxDrawings == 1

\* The copper colour of the files, written in the ways a file may hold it.
CopperUpper == <<"#", "B", "2", "8", "C", "0", "0">>

CopperLower == <<"#", "b", "2", "8", "c", "0", "0">>

CopperMixed == <<"#", "B", "2", "8", "c", "0", "0">>

CopperRgb == <<"r", "g", "b", "(", "1", "7", "8", ",", "1", "4", "0", ",", "0", ")">>

CopperRgbSpaced == <<"r", "g", "b", "(", "1", "7", "8", ",", " ", "1", "4", "0", ",", " ", "0", ")">>

\* The drawing elements: g elements with a fill attribute, a style attribute,
\* or both, and one that carries a class attribute already.
Drawings ==
    {Node("g", <<Attr("style", <<"f", "i", "l", "l", ":", "#", "B", "2", "8", "C", "0", "0", ";", "s", "t", "r", "o", "k", "e", ":", "#", "B", "2", "8", "C", "0", "0", ";", "s", "t", "r", "o", "k", "e", "-", "w", "i", "d", "t", "h", ":", "0", ".", "1">>)>>, <<>>),
     Node("g", <<Attr("style", <<"f", "i", "l", "l", ":", "#", "b", "2", "8", "c", "0", "0">>)>>, <<>>),
     Node("g", <<Attr("style", <<"s", "t", "r", "o", "k", "e", ":", "#", "B", "2", "8", "c", "0", "0", ";", " ", "f", "i", "l", "l", ":", " ", "#", "B", "2", "8", "c", "0", "0">>)>>, <<>>),
     Node("g", <<Attr("fill", CopperUpper)>>, <<>>),
     Node("g", <<Attr("fill", <<"#", "f", "f", "f", "f", "f", "f">>)>>, <<>>),
     Node("g", <<Attr("fill", <<"#", "F", "F", "F", "F", "F", "F">>), Attr("style", <<"f", "i", "l", "l", ":", "#", "0", "0", "0", "0", "0", "0">>)>>, <<>>),
     Node("g", <<Attr("fill", <<"#", "0", "0", "0", "0", "0", "0">>),
                 Attr("style", <<"f", "i", "l", "l", ":", "#", "f", "f", "f", "f", "f", "f", ";", "s", "t", "r", "o", "k", "e", ":", "r", "g", "b", "(", "1", "7", "8", ",", "1", "4", "0", ",", "0", ")">>)>>, <<>>),
     Node("g", <<Attr("style", <<"f", "i", "l", "l", ":", "r", "g", "b", "(", "1", "7", "8", ",", " ", "1", "4", "0", ",", " ", "0", ")">>)>>, <<>>),
     Node("g", <<Attr("class", <<"x">>), Attr("style", <<"f", "i", "l", "l", ":", "#", "B", "2", "8", "C", "0", "0">>)>>, <<>>)}

\* What precedes the drawing elements: nothing, the desc element, or the desc
\* element and a style element.
Preambles ==
    {<<>>, <<DescNode>>, <<DescNode, StyleNode(<<".", "x", "{", "f", "i", "l", "l", ":", "#", "b", "2", "8", "c", "0", "0", "}">>)>>}

\* The files: none at the path, or a document, whole or cut short.
SvgFiles ==
    {MissingFile}
    \cup {SvgDocument(complete, preamble \o drawings) :
             complete \in BOOLEAN, preamble \in Preambles,
             drawings \in SeqsOf(Drawings, 0, MaxDrawings)}

\* The arguments of change_svg_color and apply_css_class_to_svg.
OldColors == {CopperUpper, CopperLower, <<"B", "2", "8", "C", "0", "0">>}

NewColors == {<<"#", "F", "F", "0", "0", "0", "0">>, CopperUpper, <<"r", "e", "d">>}

FallbackColors == {<<"#", "F", "F", "0", "0", "0", "0">>, <<"l", "i", "m", "e">>, <<"b", "o", "g", "u", "s">>}

RecolorNetNames == {<<"V", "C", "C">>, <<"+", "5", "V">>}

RecolorLayerNames == {None, <<"F", ".", "C", "u">>}

InitRecolor ==
    /\ PipelineIdle
    /\ svg_file \in SvgFiles
    /\ current_color = Idle
    /\ old_color = Idle
    /\ new_color = Idle
    /\ fallback_color = Idle
    /\ output_file = NotWritten
    /\ net_name = None
    /\ layer_name = None
    /\ css_class = Idle
    /\ color_input = Idle
    /\ parsed = Idle
    /\ reparsed = Idle
    /\ data = Idle
    /\ css_styles = <<>>
    /\ merged_css = Idle
    /\ remerged_css = Idle
    /\ svg_files = <<>>
    /\ base_svg = Idle
    /\ forced = Idle
    /\ net_colors_config = <<>>
    /\ file_config = <<>>
    /\ overrides = <<>>
    /\ color = Idle
    /\ active_nets = <<>>
    /\ copper_layers = <<>>
    /\ layers_done = 0
    /\ net_svgs = {}
    /\ error = NoError
    /\ pc = "svg"

\* current_color = find_copper_color_in_svg(svg_file)
FindCopperColor ==
    /\ pc = "svg"
    /\ current_color' = find_copper_color_in_svg(svg_file)
    /\ pc' = "found"
    /\ UNCHANGED <<colorVars, cssVars, mergeVars, parseVars, data, pipeVars, svg_file, old_color,
                   new_color, fallback_color, error>>

\* change_svg_color(svg_file, old_color, new_color, output_file)
ChangeSvgColor ==
    /\ pc = "svg"
    /\ \E old \in OldColors, new \in NewColors :
          /\ old_color' = old
          /\ new_color' = new
          /\ error' = change_svg_color(svg_file, old, new).error
          /\ output_file' = change_svg_color(svg_file, old, new).output
    /\ pc' = "changed"
    /\ UNCHANGED <<colorVars, cssVars, css_styles, merged_css, remerged_css, svg_files,
                   base_svg, forced, parseVars, data, pipeVars, svg_file, current_color,
                   fallback_color>>

\* apply_css_class_to_svg(svg_file, net_name, fallback_color, output_file, layer_name)
ApplyCssClassToSvg ==
    /\ pc = "svg"
    /\ \E name \in RecolorNetNames, fallback \in FallbackColors, layer \in RecolorLayerNames :
          /\ net_name' = name
          /\ fallback_color' = fallback
          /\ layer_name' = layer
          /\ css_class' = IF parse_color(fallback) = ColorError THEN css_class
                          ELSE CssClassFor(name, layer)
          /\ current_color' = apply_css_class_to_svg(svg_file, name, fallback, layer).current_color
          /\ error' = apply_css_class_to_svg(svg_file, name, fallback, layer).error
          /\ output_file' = apply_css_class_to_svg(svg_file, name, fallback, layer).output
    /\ pc' = "styled"
    /\ UNCHANGED <<net_colors_config, color, file_config, overrides, active_nets,
                   copper_layers, layers_done, net_svgs, css_styles, merged_css,
                   remerged_css, svg_files, base_svg, forced, parseVars, data, pipeVars, svg_file,
                   old_color, new_color>>

NextRecolor == FindCopperColor \/ ChangeSvgColor \/ ApplyCssClassToSvg

SpecRecolor == InitRecolor /\ [][NextRecolor]_vars

-----------------------------------------------------------------------------
(* Claims about the recolouring functions *)

\* The fill colours an element shows, in the order the scan meets them: its
\* fill attribute when that is a 6-digit hex colour, then the 6-digit hex
\* colours of the fill declarations of its style attribute.
RECURSIVE StyleFillColors(_, _)
StyleFillColors(style, i) ==
    IF FillSearch(style, i) = 0 THEN <<>>
    ELSE <<SubSeq(style, FillSearch(style, i), FillSearch(style, i) + 6)>>
            \o StyleFillColors(style, FillSearch(style, i) + 7)

NodeFillColors(node) ==
    (IF HasAttr(node, "fill") /\ IsHex6(GetAttr(node, "fill"))
     THEN <<GetAttr(node, "fill")>> ELSE <<>>)
    \o (IF HasAttr(node, "style") THEN StyleFillColors(GetAttr(node, "style"), 1) ELSE <<>>)

RECURSIVE DocumentFillColors(_, _)
DocumentFillColors(nodes, i) ==
    IF i > Len(nodes) THEN <<>>
    ELSE NodeFillColors(nodes[i]) \o DocumentFillColors(nodes, i + 1)

\* Neither black nor white, however written.
IsDrawnColor(c) == Upper(c) \notin NON_COPPER_COLORS

\* The first drawn colour of a sequence of colours, in upper case, or None.
FirstDrawnColor(colors) ==
    IF \E i \in 1..Len(colors) : IsDrawnColor(colors[i])
    THEN Upper(colors[CHOOSE i \in 1..Len(colors) :
                  IsDrawnColor(colors[i]) /\ \A j \in 1..(i - 1) : ~IsDrawnColor(colors[j])])
    ELSE None

\* C16: find_copper_color_in_svg returns the first 6-digit hex fill colour, in
\* document order, that is neither black nor white in whatever letter case it
\* is written; it never returns #000000 or #FFFFFF, and it returns None when
\* only those occur or the file does not parse.
C16_FirstDrawnColor ==
    pc = "found" =>
        /\ current_color \notin NON_COPPER_COLORS
        /\ (~svg_file.exists \/ ~Parses(svg_file)) => current_color = None
        /\ (svg_file.exists /\ Parses(svg_file)) =>
              current_color = FirstDrawnColor(DocumentFillColors(svg_file.nodes, 1))

\* The texts of a document: its attribute values and enclosed texts.
TextsOf(nodes) ==
    {nodes[n].text : n \in 1..Len(nodes)}
    \cup UNION {{nodes[n].attrs[i].value : i \in 1..Len(nodes[n].attrs)} :
                   n \in 1..Len(nodes)}

\* A text shows a colour: its hex form in any letter case, or its rgb(r,g,b) form.
ShowsColor(text, hex) ==
    FindFrom(Lower(text), Lower(hex), 1) # 0 \/ FindFrom(text, RgbOf(hex), 1) # 0

\* C17: change_svg_color with old # new leaves no case variant of the old hex
\* text and no old rgb(r,g,b) text in the output, and every text that does not
\* show the old colour is unchanged.
C17_EveryVariantReplaced ==
    (pc = "changed" /\ error = NoError /\ Upper(old_color) # Upper(new_color)) =>
        /\ \A text \in TextsOf(output_file.nodes) : ~ShowsColor(text, old_color)
        /\ Len(output_file.nodes) = Len(svg_file.nodes)
        /\ \A n \in 1..Len(svg_file.nodes) :
              /\ output_file.nodes[n].tag = svg_file.nodes[n].tag
              /\ Len(output_file.nodes[n].attrs) = Len(svg_file.nodes[n].attrs)
              /\ ~ShowsColor(svg_file.nodes[n].text, old_color)
                    => output_file.nodes[n].text = svg_file.nodes[n].text
              /\ \A i \in 1..Len(svg_file.nodes[n].attrs) :
                    /\ output_file.nodes[n].attrs[i].name = svg_file.nodes[n].attrs[i].name
                    /\ ~ShowsColor(svg_file.nodes[n].attrs[i].value, old_color)
                          => output_file.nodes[n].attrs[i] = svg_file.nodes[n].attrs[i]

\* The class attributes of a document, and its style elements.
ClassAttrCount(node) == Cardinality({i \in 1..Len(node.attrs) : node.attrs[i].name = "class"})

ClassAttrTotal(nodes) ==
    Cardinality(UNION {{<<n, i>> : i \in {j \in 1..Len(nodes[n].attrs) :
                                              nodes[n].attrs[j].name = "class"}} :
                       n \in 1..Len(nodes)})

StylePlaces(nodes) == {n \in 1..Len(nodes) : nodes[n].tag = "style"}

OutputPlace(n) ==
    IF DescEnd(svg_file.nodes) # 0 /\ n > DescEnd(svg_file.nodes) THEN n + 2 ELSE n

\* C19: after apply_css_class_to_svg no element carries more than one class
\* attribute; an element whose style held the fill and the stroke in the
\* detected colour ends with exactly one.
C19_OneClassAttribute ==
    (pc = "styled" /\ error = NoError) =>
        /\ \A n \in 1..Len(output_file.nodes) : ClassAttrCount(output_file.nodes[n]) <= 1
        /\ \A n \in 1..Len(svg_file.nodes) :
              (/\ current_color \notin {None, Idle}
               /\ HasAttr(svg_file.nodes[n], "style")
               /\ HoldsColor(GetAttr(svg_file.nodes[n], "style"), <<"f", "i", "l", "l", ":">>, current_color)
               /\ HoldsColor(GetAttr(svg_file.nodes[n], "style"), <<"s", "t", "r", "o", "k", "e", ":">>, current_color))
              => ClassAttrCount(output_file.nodes[OutputPlace(n)]) = 1

\* An element of the output carries the generated class.
ClassAttached ==
    \E n \in 1..Len(output_file.nodes) :
        \E i \in 1..Len(output_file.nodes[n].attrs) :
            output_file.nodes[n].attrs[i] = Attr("class", css_class)

\* C20: when apply_css_class_to_svg detects a colour and attaches the class,
\* the output holds exactly one style element, right after the desc element
\* (behind the line feed), with the rule that sets fill and stroke of the class
\* to the canonical fallback colour.
C20_OneStyleBlockAfterDesc ==
    (/\ pc = "styled"
     /\ error = NoError
     /\ current_color \notin {None, Idle}
     /\ ClassAttached)
    => /\ Cardinality(StylePlaces(output_file.nodes)) = 1
       /\ \A n \in StylePlaces(output_file.nodes) :
             /\ n = 3
             /\ output_file.nodes[1].tag = "desc"
             /\ output_file.nodes[2] = LineFeedNode
             /\ output_file.nodes[n].text = StyleSectionCss(css_class, parse_color(fallback_color))

-----------------------------------------------------------------------------
(* colors.py: group_nets_by_color *)

\* `if color:` -- None and the empty text are false.
Truthy(value) == value # None /\ Len(value) > 0

\* The mutant of AppendToGroup: the net is put in front of its group.
AppendToGroup_InFront(groups, group_color, name) ==
    IF \E g \in 1..Len(groups) : groups[g].key = group_color
    THEN [g \in 1..Len(groups) |->
            IF groups[g].key = group_color
            THEN [key |-> group_color, nets |-> <<name>> \o groups[g].nets]
            ELSE groups[g]]
    ELSE Append(groups, [key |-> group_color, nets |-> <<name>>])

\* color_groups[color].append(net_name), after the list is created when the
\* colour is not yet a key.
AppendToGroup(groups, group_color, name) ==
    IF \E g \in 1..Len(groups) : groups[g].key = group_color
    THEN [g \in 1..Len(groups) |->
            IF groups[g].key = group_color
            THEN [key |-> group_color, nets |-> Append(groups[g].nets, name)]
            ELSE groups[g]]
    ELSE Append(groups, [key |-> group_color, nets |-> <<name>>])

\* The loop of group_nets_by_color from net i on.
RECURSIVE GroupLoop(_, _, _, _, _)
GroupLoop(names, config, i, groups, defaults) ==
    IF i > Len(names) THEN [color_groups |-> groups, default_nets |-> defaults]
    ELSE IF Truthy(resolve_net_color(names[i], config))
         THEN GroupLoop(names, config, i + 1,
                        AppendToGroup(groups, resolve_net_color(names[i], config), names[i]),
                        defaults)
         ELSE GroupLoop(names, config, i + 1, groups, Append(defaults, names[i]))

group_nets_by_color(names, config) == GroupLoop(names, config, 1, <<>>, <<>>)

-----------------------------------------------------------------------------
(* group_nets_by_color as a state machine: one call. *)

\* The most nets of the list.
MaxGroupNets == 3

GroupNetNames == {<<"A">>, <<"A", "B">>, <<"B">>}

GroupPatterns == {<<"A">>, <<"A", "*">>, <<"B">>, <<"?", "B">>}

InitGroup ==
    /\ MergeIdle
    /\ ColorsIdle
    /\ FileIdle
    /\ MainIdle
    /\ FinishIdle
    /\ net_names \in SeqsOf(GroupNetNames, 0, MaxGroupNets)
    /\ color_groups = <<>>
    /\ default_nets = <<>>
    /\ net_colors_config \in ConfigsOver(GroupPatterns, ConfigColors)
    /\ file_config = net_colors_config
    /\ overrides = <<>>
    /\ net_name = None
    /\ color = Idle
    /\ layer_name = None
    /\ css_class = Idle
    /\ active_nets = <<>>
    /\ copper_layers = <<>>
    /\ layers_done = 0
    /\ net_svgs = {}
    /\ error = NoError
    /\ pc = "loaded"

\* color_groups, default_nets = group_nets_by_color(net_names, net_colors)
GroupNetsByColor ==
    /\ pc = "loaded"
    /\ color_groups' = group_nets_by_color(net_names, net_colors_config).color_groups
    /\ default_nets' = group_nets_by_color(net_names, net_colors_config).default_nets
    /\ pc' = "grouped"
    /\ UNCHANGED <<colorVars, cssVars, mergeVars, parseVars, data, recolorVars, fileVars,
                   mainVars, finishVars, net_names, error>>

NextGroup == GroupNetsByColor

SpecGroup == InitGroup /\ [][NextGroup]_vars

\* The nets of the list that resolve to a colour (or to None), in list order.
NetsResolvingTo(c) ==
    SelectSeq(net_names, LAMBDA n : resolve_net_color(n, net_colors_config) = c)

\* How often a net occurs in a list.
Occurrences(list, n) == Cardinality({i \in 1..Len(list) : list[i] = n})

RECURSIVE OccurrencesInGroups(_, _, _)
OccurrencesInGroups(groups, g, n) ==
    IF g > Len(groups) THEN 0
    ELSE Occurrences(groups[g].nets, n) + OccurrencesInGroups(groups, g + 1, n)

\* C21: group_nets_by_color partitions its input: every net of the list is in
\* exactly one bucket, in the group of colour c iff it resolves to c, in the
\* default list iff it resolves to None; no group is empty, and every bucket
\* keeps the order of the list.
C21_Partition ==
    pc = "grouped" =>
        /\ \A n \in GroupNetNames :
              Occurrences(net_names, n)
                 = OccurrencesInGroups(color_groups, 1, n) + Occurrences(default_nets, n)
        /\ \A g, h \in 1..Len(color_groups) :
              g # h => color_groups[g].key # color_groups[h].key
        /\ \A g \in 1..Len(color_groups) :
              /\ Len(color_groups[g].nets) > 0
              /\ color_groups[g].key # None
              /\ color_groups[g].nets = NetsResolvingTo(color_groups[g].key)
        /\ \A i \in 1..Len(net_names) :
              resolve_net_color(net_names[i], net_colors_config) # None
                 => \E g \in 1..Len(color_groups) :
                       color_groups[g].key = resolve_net_color(net_names[i], net_colors_config)
        /\ default_nets = NetsResolvingTo(None)

\* C21 witness: nets A, B, AB under {A*: red, B: blue} have been grouped into
\* red (A, AB) and blue (B).
C21_Witness ==
    /\ pc = "grouped"
    /\ net_names = <<<<"A">>, <<"B">>, <<"A", "B">>>>
    /\ color_groups = <<[key |-> Red, nets |-> <<<<"A">>, <<"A", "B">>>>],
                        [key |-> Blue, nets |-> <<<<"B">>>>]>>
    /\ default_nets = <<>>

-----------------------------------------------------------------------------
(* svg_processor.py: add_background_to_svg *)

\* An element of a parsed document: its tag, its attributes and its children.
Elem(tag, attrs, children) == [tag |-> tag, attrs |-> attrs, children |-> children]

\* A parsed document: the viewBox, width and height attributes of the root (None
\* where the attribute is missing) and the children of the root.
SvgTree(viewBox, width, height, children) ==
    [exists |-> TRUE, viewBox |-> viewBox, width |-> width, height |-> height,
     children |-> children]

\* The element or one of its descendants is a desc element.
RECURSIVE HoldsDesc(_)
HoldsDesc(elem) ==
    \/ elem.tag = "desc"
    \/ \E i \in 1..Len(elem.children) : HoldsDesc(elem.children[i])

\* root.find(".//desc"): the child of the root in which the first desc element
\* of the document lies, 0 when the document has none.
FirstDescPlace(children) ==
    IF \E i \in 1..Len(children) : HoldsDesc(children[i])
    THEN Min({i \in 1..Len(children) : HoldsDesc(children[i])})
    ELSE 0

\* str.split(): the pieces between runs of white space.
RECURSIVE SplitWhiteSpace(_)
SplitWhiteSpace(text) ==
    LET rest == LStrip(text, WhiteSpace)
    IN  IF Len(rest) = 0 THEN <<>>
        ELSE LET stop == IF \E i \in 1..Len(rest) : rest[i] \in WhiteSpace
                         THEN Min({i \in 1..Len(rest) : rest[i] \in WhiteSpace})
                         ELSE Len(rest) + 1
             IN  <<SubSeq(rest, 1, stop - 1)>>
                    \o SplitWhiteSpace(SubSeq(rest, stop, Len(rest)))

\* The text without its sign.
Unsigned(text) ==
    IF Len(text) > 0 /\ text[1] \in {"+", "-"} THEN Tail(text) ELSE text

\* float(text) succeeds for a decimal literal: white space around it, a sign,
\* digits with at most one point and at least one digit.  (Exponents, inf and
\* nan are not among the texts the calls are made with.)
IsFloatText(text) ==
    LET u == Unsigned(Strip(text))
    IN  /\ \A i \in 1..Len(u) : Contains(Digits, u[i]) \/ u[i] = "."
        /\ Cardinality({i \in 1..Len(u) : u[i] = "."}) <= 1
        /\ \E i \in 1..Len(u) : Contains(Digits, u[i])

\* str(float(text)) for a decimal literal: the shortest text of the value,
\* always with a point.
FloatStr(text) ==
    LET t == Strip(text)
        u == Unsigned(t)
        point == IF Contains(u, ".") THEN IndexOf(u, ".") ELSE Len(u) + 1
        whole == LStrip(SubSeq(u, 1, point - 1), {"0"})
        fraction == RStrip(SubSeq(u, point + 1, Len(u)), {"0"})
    IN  (IF t[1] = "-" THEN <<"-">> ELSE <<>>)
            \o (IF Len(whole) = 0 THEN <<"0">> ELSE whole)
            \o <<".">>
            \o (IF Len(fraction) = 0 THEN <<"0">> ELSE fraction)

\* The loop over ["cm", "mm", "px", "pt", "in"]: every occurrence is removed.
StripUnits(text) ==
    ReplaceText(ReplaceText(ReplaceText(ReplaceText(ReplaceText(text,
        <<"c", "m">>, <<>>), <<"m", "m">>, <<>>), <<"p", "x">>, <<>>),
        <<"p", "t">>, <<>>), <<"i", "n">>, <<>>)

\* x, y, width, height = map(float, viewbox.split()): four numbers, or a
\* ValueError.
ViewBoxGeometry(viewbox) ==
    LET parts == SplitWhiteSpace(viewbox)
    IN  IF Len(parts) = 4 /\ \A i \in 1..4 : IsFloatText(parts[i])
        THEN [ok |-> TRUE, x |-> FloatStr(parts[1]), y |-> FloatStr(parts[2]),
              width |-> FloatStr(parts[3]), height |-> FloatStr(parts[4])]
        ELSE [ok |-> FALSE]

\* root.attrib.get(name, "100") without its units.
SizeText(value) ==
    StripUnits(IF value = None THEN <<"1", "0", "0">> ELSE value)

\* The branch without a viewBox: x, y = 0, 0 and
\* float(svg_width) if svg_width else 100, likewise the height; float() raises
\* a ValueError for a text that is not a number.
SizeGeometry(svg_width, svg_height) ==
    LET w == SizeText(svg_width)
        h == SizeText(svg_height)
    IN  IF \/ Len(w) > 0 /\ ~IsFloatText(w)
           \/ Len(h) > 0 /\ ~IsFloatText(h)
        THEN [ok |-> FALSE]
        ELSE [ok |-> TRUE, x |-> <<"0">>, y |-> <<"0">>,
              width |-> IF Len(w) > 0 THEN FloatStr(w) ELSE <<"1", "0", "0">>,
              height |-> IF Len(h) > 0 THEN FloatStr(h) ELSE <<"1", "0", "0">>]

\* The rect element the function builds.
BackgroundRect(geometry, fill) ==
    Elem("rect",
         <<Attr("x", geometry.x), Attr("y", geometry.y), Attr("width", geometry.width),
           Attr("height", geometry.height), Attr("fill", fill)>>,
         <<>>)

\* parent.insert(place - 1, elem) for a 1-based place.
InsertAt(children, place, elem) ==
    SubSeq(children, 1, place - 1) \o <<elem>> \o SubSeq(children, place, Len(children))

\* add_background_to_svg: the error raised and the file after the call.  The
\* file is written only by the last statement.  children.index(desc) raises a
\* ValueError when the first desc element is not a child of the root.
add_background_to_svg(document, fill) ==
    LET place == FirstDescPlace(document.children)
        geometry == IF document.viewBox # None /\ Len(document.viewBox) > 0
                    THEN ViewBoxGeometry(document.viewBox)
                    ELSE SizeGeometry(document.width, document.height)
    IN  IF place = 0 THEN [error |-> NoError, document |-> document]
        ELSE IF ~geometry.ok
        THEN [error |-> [kind |-> "ValueError", what |-> "float"], document |-> document]
        ELSE IF document.children[place].tag # "desc"
        THEN [error |-> [kind |-> "ValueError", what |-> "index"], document |-> document]
        ELSE [error |-> NoError,
              document |-> [document EXCEPT !.children =
                                InsertAt(document.children, place + 1,
                                         BackgroundRect(geometry, fill))]]

DescElem == Elem("desc", <<>>, <<>>)

TitleElem == Elem("title", <<>>, <<>>)

PathElem == Elem("path", <<>>, <<>>)

EmptyGroup == Elem("g", <<>>, <<>>)

\* The root attributes of the calls: a viewBox of four numbers, one with a
\* negative and a fractional number, one separated by commas, one of three
\* numbers, an empty one and none.
ViewBoxTexts ==
    {None, <<"0", " ", "0", " ", "2", "0", " ", "1", "0">>, <<"-", "5", " ", "-", "5", ".", "5", " ", "2", "0", " ", "1", "0">>, <<"0", ",", "0", ",", "2", "0", ",", "1", "0">>, <<"0", " ", "0", " ", "2", "0">>, <<>>}

WidthTexts == {None, <<"2", "0", "m", "m">>, <<"1", "0", "0", "%">>, <<>>, <<"1", "0", ".", "5", "0">>}

HeightTexts == {None, <<"1", "0", "m", "m">>, <<"a", "b", "c">>}

\* The children of the root: the desc element first, the shape merge_svg_files
\* writes, no desc element, a desc element inside a group, two desc elements,
\* and a desc element between others.
BackgroundChildren ==
    {<<DescElem, Elem("g", <<>>, <<PathElem>>)>>,
     <<TitleElem, DescElem, EmptyGroup>>,
     <<EmptyGroup>>,
     <<Elem("g", <<>>, <<DescElem>>)>>,
     <<DescElem, DescElem>>,
     <<EmptyGroup, DescElem, PathElem>>}

BackgroundColors == {<<"#", "F", "F", "F", "F", "F", "F">>, <<"#", "2", "8", "2", "A", "3", "6">>}

InitBackground ==
    /\ MergeIdle
    /\ ColorsIdle
    /\ OthersIdle
    /\ GroupIdle
    /\ MainIdle
    /\ FinishIdle
    /\ temp_output_file \in
          {SvgTree(v, w, h, c) : v \in ViewBoxTexts, w \in WidthTexts, h \in HeightTexts,
                                 c \in BackgroundChildren}
    /\ original_file = temp_output_file
    /\ background_color \in BackgroundColors
    /\ error = NoError
    /\ pc = "background"

\* One call add_background_to_svg(temp_output_file, background_color).
AddBackgroundToSvg ==
    /\ pc = "background"
    /\ LET result == add_background_to_svg(temp_output_file, background_color)
       IN  /\ error' = result.error
           /\ temp_output_file' = result.document
    /\ pc' = "background_added"
    /\ UNCHANGED <<colorVars, cssVars, mergeVars, parseVars, data, recolorVars, groupVars,
                   mainVars, finishVars, original_file, background_color>>

NextBackground == AddBackgroundToSvg

SpecBackground == InitBackground /\ [][NextBackground]_vars

\* The desc element of the document is a child of the root.
DescIsChild(document) ==
    /\ FirstDescPlace(document.children) > 0
    /\ document.children[FirstDescPlace(document.children)].tag = "desc"

\* The viewBox attribute holds four numbers.
IsViewBoxText(viewbox) ==
    viewbox # None /\ Len(viewbox) > 0 /\ ViewBoxGeometry(viewbox).ok

\* The width or height the claim names for a document without viewBox: the
\* attribute without its unit where that is a number, else 100.
SizeOrFallback(value) ==
    IF value # None /\ IsFloatText(StripUnits(value)) THEN FloatStr(StripUnits(value))
    ELSE <<"1", "0", "0", ".", "0">>

\* The numbers of the rectangle the claim names.
ExpectedGeometry(document) ==
    IF IsViewBoxText(document.viewBox)
    THEN ViewBoxGeometry(document.viewBox)
    ELSE [ok |-> TRUE, x |-> <<"0", ".", "0">>, y |-> <<"0", ".", "0">>,
          width |-> SizeOrFallback(document.width),
          height |-> SizeOrFallback(document.height)]

\* The element is a rect whose x, y, width and height are the given numbers.
IsRectOf(elem, geometry) ==
    /\ elem.tag = "rect"
    /\ Len(elem.attrs) >= 4
    /\ elem.attrs[1].name = "x" /\ FloatStr(elem.attrs[1].value) = geometry.x
    /\ elem.attrs[2].name = "y" /\ FloatStr(elem.attrs[2].value) = geometry.y
    /\ elem.attrs[3].name = "width" /\ FloatStr(elem.attrs[3].value) = geometry.width
    /\ elem.attrs[4].name = "height" /\ FloatStr(elem.attrs[4].value) = geometry.height

\* C22: add_background_to_svg on a document whose desc element is a child of
\* the root, with a viewBox of four numbers or without a viewBox, ends without
\* error and leaves the document with exactly one more element, a rect right
\* after the desc element, whose numbers are those of the viewBox, or 0, 0 and
\* the unit-stripped width and height, each replaced by 100 when it is missing
\* or not a number; on a document without desc element it ends without error
\* and leaves the document as it was.
C22_BackgroundRect ==
    pc = "background_added" =>
        /\ FirstDescPlace(original_file.children) = 0
              => error = NoError /\ temp_output_file = original_file
        /\ (/\ DescIsChild(original_file)
            /\ original_file.viewBox = None \/ IsViewBoxText(original_file.viewBox))
              => /\ error = NoError
                 /\ \E rect \in Range(temp_output_file.children) :
                       /\ IsRectOf(rect, ExpectedGeometry(original_file))
                       /\ temp_output_file.children =
                             InsertAt(original_file.children,
                                      FirstDescPlace(original_file.children) + 1, rect)

-----------------------------------------------------------------------------
(* remove_empty_groups.  __main__.py imports it from svg_processor, where this
   version of the source does not define it; the function of that name in
   tests/functional/test_svg_generation.py is the one modelled. *)

\* len(elem) == 0 for a g element.
IsEmptyGroup(elem) == elem.tag = "g" /\ Len(elem.children) = 0

\* _remove_empty_groups on the children of one element: first the loop that
\* removes the g children without children, then the call for every child
\* that is left.
RECURSIVE RemoveEmptyGroupsIn(_)
RemoveEmptyGroupsIn(children) ==
    LET kept == SelectSeq(children, LAMBDA child : ~IsEmptyGroup(child))
    IN  [i \in 1..Len(kept) |->
            [kept[i] EXCEPT !.children = RemoveEmptyGroupsIn(kept[i].children)]]

\* remove_empty_groups: the file after the call.
remove_empty_groups(document) ==
    [document EXCEPT !.children = RemoveEmptyGroupsIn(document.children)]

\* The most children of the root in the documents of the cleanup calls.
MaxRootChildren == 2

\* The elements of the cleanup calls: a path, a desc element, an empty group,
\* groups with a path, and groups whose only descendants are groups.
CleanupElems ==
    {PathElem, DescElem, EmptyGroup,
     Elem("g", <<>>, <<PathElem>>),
     Elem("g", <<>>, <<EmptyGroup>>),
     Elem("g", <<>>, <<EmptyGroup, PathElem>>),
     Elem("g", <<>>, <<EmptyGroup, EmptyGroup>>),
     Elem("g", <<>>, <<Elem("g", <<>>, <<EmptyGroup>>)>>),
     Elem("g", <<>>, <<Elem("g", <<>>, <<PathElem, EmptyGroup>>)>>)}

InitCleanup ==
    /\ MergeIdle
    /\ ColorsIdle
    /\ OthersIdle
    /\ GroupIdle
    /\ MainIdle
    /\ FinishIdle
    /\ temp_output_file \in
          {SvgTree(None, None, None, c) : c \in SeqsOf(CleanupElems, 0, MaxRootChildren)}
    /\ original_file = temp_output_file
    /\ background_color = None
    /\ error = NoError
    /\ pc = "cleanup"

\* One call remove_empty_groups(temp_output_file).
RemoveEmptyGroups ==
    /\ pc = "cleanup"
    /\ temp_output_file' = remove_empty_groups(temp_output_file)
    /\ pc' = "cleaned"
    /\ UNCHANGED <<colorVars, cssVars, mergeVars, parseVars, data, recolorVars, groupVars,
                   mainVars, finishVars, original_file, background_color, error>>

NextCleanup == RemoveEmptyGroups

SpecCleanup == InitCleanup /\ [][NextCleanup]_vars

\* One of the elements, or one of their descendants, is a g element without
\* children.
RECURSIVE HoldsEmptyGroup(_)
HoldsEmptyGroup(children) ==
    \E i \in 1..Len(children) :
        IsEmptyGroup(children[i]) \/ HoldsEmptyGroup(children[i].children)

\* The tags of the elements that are not g elements, in document order.
RECURSIVE OtherElements(_)
OtherElements(children) ==
    IF Len(children) = 0 THEN <<>>
    ELSE (IF children[1].tag = "g" THEN <<>> ELSE <<children[1].tag>>)
            \o OtherElements(children[1].children)
            \o OtherElements(Tail(children))

\* C23: after remove_empty_groups the document holds no g element without
\* children at any depth, and the elements that are not g elements are all
\* kept, in their order.
C23_NoEmptyGroupLeft ==
    pc = "cleaned" =>
        /\ ~HoldsEmptyGroup(temp_output_file.children)
        /\ OtherElements(temp_output_file.children) = OtherElements(original_file.children)

-----------------------------------------------------------------------------
(* __main__.py and svg_generator.py: the fragments of a run and their order *)

\* LAYER_DEFINITIONS[layer].order_priority, and the priority get_layer_info
\* gives an unknown layer.
order_priority(layer) ==
    CASE layer = F_Cu -> 100
      [] layer = B_Cu -> 900
      [] layer = F_SilkS -> 50
      [] layer = Edge_Cuts -> 1
      [] OTHER -> 9999

is_copper_layer(layer) == layer \in {F_Cu, B_Cu}

get_copper_layers(layer_names) == SelectSeq(layer_names, is_copper_layer)

get_non_copper_layers(layer_names) ==
    SelectSeq(layer_names, LAMBDA layer : ~is_copper_layer(layer))

\* One fragment file of temp_dir: default_nets_{layer}.svg ("default_nets"),
\* {safe_color}_{layer}.svg ("color", key the colour),
\* net_{safe_net_name}_{layer}_styled.svg ("styled", key the net) or
\* {layer}.svg ("layer").
Fragment(kind, key, layer) == [kind |-> kind, key |-> key, layer |-> layer]

\* The keys of color_groups in insertion order: the colours of the nets that
\* are keys of net_colors, each once, in the order of the first net.
RECURSIVE GroupColors(_, _, _, _)
GroupColors(nets, net_colors, i, colors) ==
    IF i > Len(nets) THEN colors
    ELSE IF nets[i] \in KeySet(net_colors) /\ ~Contains(colors, Lookup(net_colors, nets[i]))
    THEN GroupColors(nets, net_colors, i + 1, Append(colors, Lookup(net_colors, nets[i])))
    ELSE GroupColors(nets, net_colors, i + 1, colors)

\* The exports of _generate_grouped_net_svgs_single_layer in the order they
\* are made: the default nets, if there are any, then each colour group.
GroupedExports(layer, nets, net_colors) ==
    (IF \E i \in 1..Len(nets) : nets[i] \notin KeySet(net_colors)
     THEN <<Fragment("default_nets", None, layer)>> ELSE <<>>)
        \o [c \in 1..Len(GroupColors(nets, net_colors, 1, <<>>)) |->
               Fragment("color", GroupColors(nets, net_colors, 1, <<>>)[c], layer)]

\* The exports of _generate_individual_net_svgs_single_layer: one per net.
StyledExports(layer, nets) ==
    [i \in 1..Len(nets) |-> Fragment("styled", nets[i], layer)]

\* The exports that did not raise: an export that fails is caught, logged and
\* leaves no entry in the net_svgs of the layer.
Exported(exports, failed) == SelectSeq(exports, LAMBDA f : f \notin failed)

\* Every order in which the elements of a set can be listed.
SetOrders(S) == DistinctSeqs(S, Cardinality(S), Cardinality(S))

\* all_layer_svgs of _generate_grouped_net_svgs_per_layer: for each layer the
\* distinct files of the layer as list(set(...)) lists them, in any order the
\* set may iterate in.
RECURSIVE GroupedLayerSvgs(_, _, _, _)
GroupedLayerSvgs(layers, nets, net_colors, failed) ==
    IF Len(layers) = 0 THEN {<<>>}
    ELSE {unique_layer_svgs \o rest :
            unique_layer_svgs \in
                SetOrders(Range(Exported(GroupedExports(layers[1], nets, net_colors), failed))),
            rest \in GroupedLayerSvgs(Tail(layers), nets, net_colors, failed)}

\* The values of the dict _generate_grouped_net_svgs_per_layer returns: one
\* entry per file under a made-up name, then the first file again under the
\* name of the first net.
GroupedReturn(all_layer_svgs, nets) ==
    all_layer_svgs
        \o (IF Len(nets) > 0 /\ Len(all_layer_svgs) > 0 THEN <<all_layer_svgs[1]>> ELSE <<>>)

\* The loop of _generate_individual_net_svgs_per_layer: the error that ended
\* it (the collision of the first layer whose check fails) and the files
\* written up to then, in the order they were written.
RECURSIVE StyledLayerSvgs(_, _, _)
StyledLayerSvgs(layers, nets, failed) ==
    IF Len(layers) = 0 THEN [error |-> NoError, layer_svgs |-> <<>>]
    ELSE IF CollisionCheck(nets, layers[1], 1, {}) # NoError
    THEN [error |-> CollisionCheck(nets, layers[1], 1, {}), layer_svgs |-> <<>>]
    ELSE [error |-> StyledLayerSvgs(Tail(layers), nets, failed).error,
          layer_svgs |-> Exported(StyledExports(layers[1], nets), failed)
                            \o StyledLayerSvgs(Tail(layers), nets, failed).layer_svgs]

\* The values of the dict _generate_individual_net_svgs_per_layer returns:
\* the i-th net is mapped to the i-th file.
StyledReturn(layer_svgs, nets) ==
    SubSeq(layer_svgs, 1, IF Len(nets) < Len(layer_svgs) THEN Len(nets) ELSE Len(layer_svgs))

\* The most exports that fail in one call of generate_color_grouped_svgs.
MaxFailures == 1

\* The exports a run is to make: one per net and copper layer or one per
\* group and copper layer, and one for each non-copper layer.
RunExports(layers, css, nets, net_colors) ==
    UNION {Range(IF css THEN StyledExports(get_copper_layers(layers)[l], nets)
                 ELSE GroupedExports(get_copper_layers(layers)[l], nets, net_colors)) :
           l \in 1..Len(get_copper_layers(layers))}
      \cup {Fragment("layer", None, get_non_copper_layers(layers)[l]) :
              l \in 1..Len(get_non_copper_layers(layers))}

\* net_svgs = generate_color_grouped_svgs(...): every export either writes its
\* fragment or fails and is skipped; a CSS class collision is raised to main,
\* which does not catch it.
GenerateColorGroupedSvgs ==
    /\ pc = "generate"
    /\ IF use_css_classes
       THEN LET run == StyledLayerSvgs(copper_layers, active_nets, failed_exports)
            IN  /\ temp_dir' = Range(run.layer_svgs)
                /\ error' = run.error
                /\ net_svgs' = IF run.error = NoError
                               THEN StyledReturn(run.layer_svgs, active_nets)
                               ELSE net_svgs
                /\ pc' = IF run.error = NoError THEN "collect" ELSE "crashed"
       ELSE \E all_layer_svgs \in
                  GroupedLayerSvgs(copper_layers, active_nets, resolved_net_colors,
                                   failed_exports) :
                /\ temp_dir' = Range(all_layer_svgs)
                /\ net_svgs' = GroupedReturn(all_layer_svgs, active_nets)
                /\ pc' = "collect"
                /\ UNCHANGED error
    /\ UNCHANGED <<colorVars, mergeVars, parseVars, data, recolorVars, groupVars, fileVars,
                   finishVars, layer_name, css_class, active_nets, copper_layers, layers_done, layer_list,
                   use_css_classes, resolved_net_colors, failed_exports, copper_svgs,
                   non_copper_svgs, all_svgs_to_merge>>

\* list(temp_dir.glob("*{layer}_styled.svg")) for each copper layer: the styled
\* files of the layer in any order the directory may list them in.
RECURSIVE StyledGlobs(_, _)
StyledGlobs(layers, files) ==
    IF Len(layers) = 0 THEN {<<>>}
    ELSE {layer_styled_svgs \o rest :
            layer_styled_svgs \in
                SetOrders({f \in files : f.kind = "styled" /\ f.layer = layers[1]}),
            rest \in StyledGlobs(Tail(layers), files)}

\* The loops of the non-CSS branch: for each copper layer, the values of
\* net_svgs of that layer that were not seen before.
RECURSIVE CollectBySeen(_, _, _, _, _)
CollectBySeen(layers, values, l, v, collected) ==
    IF l > Len(layers) THEN collected
    ELSE IF v > Len(values) THEN CollectBySeen(layers, values, l + 1, 1, collected)
    ELSE IF ~Contains(collected, values[v]) /\ values[v].layer = layers[l]
    THEN CollectBySeen(layers, values, l, v + 1, Append(collected, values[v]))
    ELSE CollectBySeen(layers, values, l, v + 1, collected)

\* The copper fragments are collected: by directory listing when temp_dir
\* holds a styled file, else from the values of net_svgs.
CollectCopperSvgs ==
    /\ pc = "collect"
    /\ IF \E f \in temp_dir : f.kind = "styled"
       THEN copper_svgs' \in StyledGlobs(copper_layers, temp_dir)
       ELSE copper_svgs' = CollectBySeen(copper_layers, net_svgs, 1, 1, <<>>)
    /\ pc' = "non_copper"
    /\ UNCHANGED <<colorVars, cssVars, mergeVars, parseVars, data, recolorVars, groupVars,
                   fileVars, finishVars, layer_list, use_css_classes, resolved_net_colors, failed_exports,
                   temp_dir, non_copper_svgs, all_svgs_to_merge, error>>

\* generate_grouped_non_copper_svgs for all non-copper layers in one batch: the
\* dict layer -> file, or, when the exporter fails for one of the layers, its
\* exception, which neither the function nor main catches.
GenerateNonCopperSvgs ==
    /\ pc = "non_copper"
    /\ IF Len(get_non_copper_layers(layer_list)) = 0
       THEN /\ pc' = "order"
            /\ UNCHANGED <<temp_dir, non_copper_svgs, error>>
       ELSE IF \E f \in failed_exports : f.kind = "layer"
       THEN /\ error' = [kind |-> "exporter_error"]
            /\ pc' = "crashed"
            /\ UNCHANGED <<temp_dir, non_copper_svgs>>
       ELSE /\ non_copper_svgs' =
                  [i \in 1..Len(get_non_copper_layers(layer_list)) |->
                      [layer |-> get_non_copper_layers(layer_list)[i],
                       svg |-> Fragment("layer", None, get_non_copper_layers(layer_list)[i])]]
            /\ temp_dir' = temp_dir \cup
                  {Fragment("layer", None, get_non_copper_layers(layer_list)[i]) :
                      i \in 1..Len(get_non_copper_layers(layer_list))}
            /\ pc' = "order"
            /\ UNCHANGED error
    /\ UNCHANGED <<colorVars, cssVars, mergeVars, parseVars, data, recolorVars, groupVars,
                   fileVars, finishVars, layer_list, use_css_classes, resolved_net_colors, failed_exports,
                   copper_svgs, all_svgs_to_merge>>

\* The loop over layer_list that builds all_svgs_to_merge: all copper
\* fragments at the place of the first copper layer, each non-copper fragment
\* at the place of its layer.
RECURSIVE MergeOrder(_, _, _, _, _)
MergeOrder(layers, copper, non_copper, i, copper_added) ==
    IF i > Len(layers) THEN <<>>
    ELSE IF is_copper_layer(layers[i])
    THEN IF Len(copper) > 0 /\ ~copper_added
         THEN copper \o MergeOrder(layers, copper, non_copper, i + 1, TRUE)
         ELSE MergeOrder(layers, copper, non_copper, i + 1, copper_added)
    ELSE IF \E n \in 1..Len(non_copper) : non_copper[n].layer = layers[i]
    THEN <<(CHOOSE e \in Range(non_copper) : e.layer = layers[i]).svg>>
            \o MergeOrder(layers, copper, non_copper, i + 1, copper_added)
    ELSE MergeOrder(layers, copper, non_copper, i + 1, copper_added)

BuildMergeOrder ==
    /\ pc = "order"
    /\ all_svgs_to_merge' = MergeOrder(layer_list, copper_svgs, non_copper_svgs, 1, FALSE)
    /\ pc' = "ordered"
    /\ UNCHANGED <<colorVars, cssVars, mergeVars, parseVars, data, recolorVars, groupVars,
                   fileVars, finishVars, layer_list, use_css_classes, resolved_net_colors, failed_exports,
                   temp_dir, copper_svgs, non_copper_svgs, error>>

NextMain ==
    \/ GenerateColorGroupedSvgs
    \/ CollectCopperSvgs
    \/ GenerateNonCopperSvgs
    \/ BuildMergeOrder

\* The layer lists of the runs: copper only, non-copper layers before, between
\* and after the copper layers, and the front_assembly list of the presets.
MainLayerLists ==
    {<<F_Cu>>, <<F_Cu, B_Cu>>, <<B_Cu, F_Cu>>, <<F_SilkS, F_Cu>>,
     <<F_Cu, F_SilkS, Edge_Cuts>>, <<F_Cu, F_SilkS, B_Cu>>,
     <<F_SilkS, F_Cu, Edge_Cuts>>, <<B_Cu, F_Cu, F_SilkS, Edge_Cuts>>,
     <<Edge_Cuts, B_Cu, F_Cu, F_SilkS>>}

\* The active nets of the runs: one net, two nets, and two nets whose CSS
\* classes collide.
MainNetLists == {<< <<"A">> >>, << <<"A">>, <<"B">> >>, << <<"A">>, <<"a">> >>}

\* resolved_net_colors: no net coloured, one net coloured, two nets with one
\* colour and two nets with two colours.
MainNetColors ==
    {<<>>,
     <<[key |-> <<"A">>, color |-> Red]>>,
     <<[key |-> <<"A">>, color |-> Red], [key |-> <<"B">>, color |-> Red]>>,
     <<[key |-> <<"A">>, color |-> Red], [key |-> <<"B">>, color |-> Blue]>>}

\* main after the layers are validated and temp_workspace is created.
InitMain ==
    /\ MergeIdle
    /\ ColorsIdle
    /\ GroupIdle
    /\ FileIdle
    /\ FinishIdle
    /\ layer_list \in MainLayerLists
    /\ copper_layers = get_copper_layers(layer_list)
    /\ active_nets \in MainNetLists
    /\ resolved_net_colors \in MainNetColors
    /\ use_css_classes \in BOOLEAN
    /\ failed_exports \in
          {F \in SUBSET RunExports(layer_list, use_css_classes, active_nets,
                                   resolved_net_colors) : Cardinality(F) <= MaxFailures}
    /\ net_colors_config = resolved_net_colors
    /\ file_config = <<>>
    /\ overrides = <<>>
    /\ net_name = None
    /\ color = Idle
    /\ layer_name = None
    /\ css_class = Idle
    /\ layers_done = 0
    /\ net_svgs = <<>>
    /\ temp_dir = {}
    /\ copper_svgs = <<>>
    /\ non_copper_svgs = <<>>
    /\ all_svgs_to_merge = <<>>
    /\ error = NoError
    /\ pc = "generate"

SpecMain == InitMain /\ [][NextMain]_vars

\* The fragments of the exports of the run that did not fail.
ProducedFragments ==
    RunExports(layer_list, use_css_classes, active_nets, resolved_net_colors) \ failed_exports

\* C24: an export that fails does not end the run: main ends before the merge
\* only through a CSS class collision, and otherwise hands to the merge exactly
\* the fragments of the exports that did not fail, each once.
C24_PartialFailureTolerance ==
    /\ pc = "crashed" => error.kind = "collision"
    /\ pc = "ordered" =>
          /\ Range(all_svgs_to_merge) = ProducedFragments
          /\ Len(all_svgs_to_merge) = Cardinality(ProducedFragments)

\* The priorities of the layers of the fragments, in list order.
PrioritiesOf(fragments) ==
    [i \in 1..Len(fragments) |-> order_priority(fragments[i].layer)]

\* Two places of the list of which at least one holds the fragment of a
\* non-copper layer.
NonCopperPair(fragments, i, j) ==
    i < j /\ (~is_copper_layer(fragments[i].layer) \/ ~is_copper_layer(fragments[j].layer))

\* C26: in the list handed to the merge every fragment of a non-copper layer
\* stands before or after the other fragments as the order_priority values of
\* their layers say, in one direction for the whole list (front to back or
\* back to front).
C26_StackingPriorityOrder ==
    pc = "ordered" =>
        \/ \A i, j \in 1..Len(all_svgs_to_merge) :
              NonCopperPair(all_svgs_to_merge, i, j)
                 => PrioritiesOf(all_svgs_to_merge)[i] <= PrioritiesOf(all_svgs_to_merge)[j]
        \/ \A i, j \in 1..Len(all_svgs_to_merge) :
              NonCopperPair(all_svgs_to_merge, i, j)
                 => PrioritiesOf(all_svgs_to_merge)[i] >= PrioritiesOf(all_svgs_to_merge)[j]

\* The copper fragments in the order the exports were made: layer by layer in
\* the order of copper_layers, inside a layer in the order of the groups or of
\* the nets.
RECURSIVE ExportOrder(_)
ExportOrder(layers) ==
    IF Len(layers) = 0 THEN <<>>
    ELSE Exported(IF use_css_classes THEN StyledExports(layers[1], active_nets)
                  ELSE GroupedExports(layers[1], active_nets, resolved_net_colors),
                  failed_exports)
            \o ExportOrder(Tail(layers))

\* C28: the list handed to the merge is fixed by the inputs of the run (the
\* layer list, the nets, the colours, the mode) and by which exports failed:
\* it is the list the loop of main builds from the copper fragments in export
\* order, whatever order a set or a directory listing yields.
C28_DeterministicOrder ==
    pc = "ordered" =>
        all_svgs_to_merge
            = MergeOrder(layer_list, ExportOrder(copper_layers), non_copper_svgs, 1, FALSE)

-----------------------------------------------------------------------------
(* svg_generator.py: the names of the intermediate files *)

\* layer_suffix = layer_name.replace(".", "_")
LayerSuffix(layer) == Replace(layer, ".", <<"_">>)

\* raw_svg of CSS-class mode: net_{safe_net_name}_{layer_suffix}.svg
RawSvgName(name, layer) ==
    <<"n", "e", "t", "_">> \o SafeNetName(name) \o <<"_">> \o LayerSuffix(layer) \o <<".", "s", "v", "g">>

\* safe_color = color.replace("#", "color_").replace("/", "_").replace("\\", "_")
SafeColor(group_color) ==
    Replace(Replace(Replace(group_color, "#", <<"c", "o", "l", "o", "r", "_">>), "/", <<"_">>), "\\", <<"_">>)

\* The files of one net and layer in CSS-class mode.
StyledFiles(name, layer) ==
    [key |-> name, layer |-> layer,
     raw_svg |-> RawSvgName(name, layer), final_svg |-> FinalSvgName(name, layer)]

\* The files of one colour group and layer in grouped mode:
\* raw_{safe_color}_{layer_suffix}.svg and {safe_color}_{layer_suffix}.svg.
ColorFiles(group_color, layer) ==
    [key |-> group_color, layer |-> layer,
     raw_svg |-> <<"r", "a", "w", "_">> \o SafeColor(group_color) \o <<"_">> \o LayerSuffix(layer) \o <<".", "s", "v", "g">>,
     final_svg |-> SafeColor(group_color) \o <<"_">> \o LayerSuffix(layer) \o <<".", "s", "v", "g">>]

\* The file of the default nets of a layer: default_nets_{layer_suffix}.svg,
\* which the export is renamed to.
DefaultFiles(layer) ==
    [key |-> None, layer |-> layer,
     raw_svg |-> <<"d", "e", "f", "a", "u", "l", "t", "_", "n", "e", "t", "s", "_">> \o LayerSuffix(layer) \o <<".", "s", "v", "g">>,
     final_svg |-> <<"d", "e", "f", "a", "u", "l", "t", "_", "n", "e", "t", "s", "_">> \o LayerSuffix(layer) \o <<".", "s", "v", "g">>]

\* The files of the exports of one layer.
LayerFiles(layer, css, nets, net_colors) ==
    IF css THEN {StyledFiles(nets[i], layer) : i \in 1..Len(nets)}
    ELSE {IF f.kind = "color" THEN ColorFiles(f.key, layer) ELSE DefaultFiles(layer) :
            f \in Range(GroupedExports(layer, nets, net_colors))}

\* The intermediate files of a run are named: in CSS-class mode layer by
\* layer after the collision check of the layer, which ends the run when it
\* fails; in grouped mode for every group of every layer.
NameIntermediateFiles ==
    /\ pc = "name_files"
    /\ LET run == StyledLayerSvgs(copper_layers, active_nets, {})
       IN  /\ error' = IF use_css_classes THEN run.error ELSE NoError
           /\ temp_dir' =
                 IF use_css_classes /\ run.error # NoError THEN {}
                 ELSE UNION {LayerFiles(copper_layers[l], use_css_classes, active_nets,
                                        resolved_net_colors) : l \in 1..Len(copper_layers)}
    /\ pc' = "named"
    /\ UNCHANGED <<colorVars, cssVars, mergeVars, parseVars, data, recolorVars, groupVars,
                   fileVars, finishVars, layer_list, use_css_classes, resolved_net_colors,
                   failed_exports, copper_svgs, non_copper_svgs, all_svgs_to_merge>>

NextNames == NameIntermediateFiles

\* Net names that differ in case or in the character between two letters.
FileNetNames == {<<"A">>, <<"a">>, <<"B">>, <<"A", "_", "B">>, <<"A", "/", "B">>, <<"A", "<", "B">>, <<"A", " ", "B">>}

\* Every dict that gives each net of the list a colour of the set or none.
RECURSIVE ColorsFor(_, _)
ColorsFor(nets, colors) ==
    IF Len(nets) = 0 THEN {<<>>}
    ELSE LET rest == ColorsFor(Tail(nets), colors)
         IN  rest \cup {<<[key |-> nets[1], color |-> c]>> \o r : c \in colors, r \in rest}

InitNames ==
    /\ MergeIdle
    /\ ColorsIdle
    /\ GroupIdle
    /\ FileIdle
    /\ FinishIdle
    /\ active_nets \in DistinctSeqs(FileNetNames, 1, MaxActiveNets)
    /\ copper_layers \in CopperLayerLists
    /\ layer_list = copper_layers
    /\ use_css_classes \in BOOLEAN
    /\ resolved_net_colors \in ColorsFor(active_nets, {Red, Blue})
    /\ net_colors_config = resolved_net_colors
    /\ file_config = <<>>
    /\ overrides = <<>>
    /\ net_name = None
    /\ color = Idle
    /\ layer_name = None
    /\ css_class = Idle
    /\ layers_done = 0
    /\ net_svgs = <<>>
    /\ failed_exports = {}
    /\ temp_dir = {}
    /\ copper_svgs = <<>>
    /\ non_copper_svgs = <<>>
    /\ all_svgs_to_merge = <<>>
    /\ error = NoError
    /\ pc = "name_files"

SpecNames == InitNames /\ [][NextNames]_vars

\* C27: in a run that passes the collision check (CSS-class mode) or groups by
\* colour, the raw and final file names of two different (net, layer) or
\* (group, layer) pairs are all different.
C27_UniqueFileNames ==
    (pc = "named" /\ error = NoError) =>
        \A f, g \in temp_dir :
            (f.key # g.key \/ f.layer # g.layer)
               => {f.raw_svg, f.final_svg} \cap {g.raw_svg, g.final_svg} = {}

-----------------------------------------------------------------------------
(* __main__.py: merge, background and cleanup on the temporary file, then the
   copy to the user's output path *)

\* The characters of the attribute values of the fragments.
TextOf(value) ==
    CASE value = "100mm" -> <<"1", "0", "0", "m", "m">>
      [] value = "200mm" -> <<"2", "0", "0", "m", "m">>
      [] value = "0 0 100 100" -> <<"0", " ", "0", " ", "1", "0", "0", " ", "1", "0", "0">>
      [] value = "0 0 200 100" -> <<"0", " ", "0", " ", "2", "0", "0", " ", "1", "0", "0">>
      [] value = "0,0,100,100" -> <<"0", ",", "0", ",", "1", "0", "0", ",", "1", "0", "0">>
      [] OTHER -> None

\* The elements ET.parse builds from the pieces of a body, from piece i on, up
\* to the end of the enclosing group, and the place after that end.
RECURSIVE ParseElements(_, _)
ParseElements(body, i) ==
    IF i > Len(body) THEN [elems |-> <<>>, next |-> i]
    ELSE IF body[i] = G_CLOSE THEN [elems |-> <<>>, next |-> i + 1]
    ELSE IF body[i] = G_OPEN
    THEN LET inner == ParseElements(body, i + 1)
             rest  == ParseElements(body, inner.next)
         IN  [elems |-> <<Elem("g", <<>>, inner.elems)>> \o rest.elems, next |-> rest.next]
    ELSE IF body[i] = ELEMENT
    THEN LET rest == ParseElements(body, i + 1)
         IN  [elems |-> <<PathElem>> \o rest.elems, next |-> rest.next]
    ELSE ParseElements(body, i + 1)

\* A file ET.parse rejects.
MalformedFile == [exists |-> TRUE, malformed |-> TRUE]

\* The file merge_svg_files writes, as ET.parse reads it: the header
\* attributes, the title and desc elements, the style element when there is
\* one, and the elements of the fragments.
ParsedFile(document) ==
    IF ~GroupsBalanced(document.body, 1, 0) THEN MalformedFile
    ELSE SvgTree(TextOf(document.viewBox), TextOf(document.width), TextOf(document.height),
                 <<TitleElem, DescElem>>
                     \o (IF document.style # NoStyle THEN <<Elem("style", <<>>, <<>>)>>
                         ELSE <<>>)
                     \o ParseElements(document.body, 1).elems)

\* The mutant of StepAfter: the copy to the output path is made right after
\* the merge.
StepAfter_CopyFirst(step) ==
    CASE step = "merge" -> "copy"
      [] step = "copy" -> "background"
      [] step = "background" -> "cleanup"
      [] step = "cleanup" -> "metadata"

\* The order of the statements of the try block.
StepAfter(step) ==
    CASE step = "merge" -> "background"
      [] step = "background" -> "cleanup"
      [] step = "cleanup" -> "copy"
      [] step = "copy" -> "metadata"

\* except Exception as e: logger.error(...); sys.exit(1)
ExitOnError(step, cause) ==
    [kind |-> "error_creating_svg", step |-> step, cause |-> cause]

\* merge_svg_files(all_svgs_to_merge, temp_output_file, ...).  Writing the file
\* may also fail with an OSError.
MergeToTemp ==
    /\ pc = "merge"
    /\ LET result == merge_svg_files(svg_files, base_svg, forced)
       IN  \E os_error \in BOOLEAN :
              IF result.error # NoError \/ os_error
              THEN /\ error' = ExitOnError("merge", IF result.error # NoError THEN result.error
                                                    ELSE [kind |-> "OSError"])
                   /\ pc' = "exit_1"
                   /\ UNCHANGED temp_output_file
              ELSE /\ temp_output_file' = ParsedFile(result.document)
                   /\ pc' = StepAfter("merge")
                   /\ UNCHANGED error
    /\ UNCHANGED <<colorVars, cssVars, mergeVars, parseVars, data, recolorVars, groupVars,
                   mainVars, finishVars, original_file, background_color>>

\* if not args.no_background: add_background_to_svg(temp_output_file, ...)
AddBackgroundToTemp ==
    /\ pc = "background"
    /\ IF no_background
       THEN /\ pc' = StepAfter("background")
            /\ UNCHANGED <<temp_output_file, error>>
       ELSE \E os_error \in BOOLEAN :
              LET result == IF temp_output_file = MalformedFile
                            THEN [error |-> [kind |-> "ParseError"],
                                  document |-> temp_output_file]
                            ELSE add_background_to_svg(temp_output_file, background_color)
              IN  IF result.error # NoError \/ os_error
                  THEN /\ error' = ExitOnError("background",
                                               IF result.error # NoError THEN result.error
                                               ELSE [kind |-> "OSError"])
                       /\ pc' = "exit_1"
                       /\ UNCHANGED temp_output_file
                  ELSE /\ temp_output_file' = result.document
                       /\ pc' = StepAfter("background")
                       /\ UNCHANGED error
    /\ UNCHANGED <<colorVars, cssVars, mergeVars, parseVars, data, recolorVars, groupVars,
                   mainVars, finishVars, original_file, background_color>>

\* remove_empty_groups(temp_output_file)
CleanTemp ==
    /\ pc = "cleanup"
    /\ \E os_error \in BOOLEAN :
          IF temp_output_file = MalformedFile \/ os_error
          THEN /\ error' = ExitOnError("cleanup",
                                       IF temp_output_file = MalformedFile
                                       THEN [kind |-> "ParseError"] ELSE [kind |-> "OSError"])
               /\ pc' = "exit_1"
               /\ UNCHANGED temp_output_file
          ELSE /\ temp_output_file' = remove_empty_groups(temp_output_file)
               /\ pc' = StepAfter("cleanup")
               /\ UNCHANGED error
    /\ UNCHANGED <<colorVars, cssVars, mergeVars, parseVars, data, recolorVars, groupVars,
                   mainVars, finishVars, original_file, background_color>>

\* A file that was opened for writing and not written to its end.
PartialFile == [exists |-> TRUE, partial |-> TRUE]

\* shutil.copy2(temp_output_file, args.output): the output path holds the
\* copy, or the copy fails before the output is opened or while it is written.
CopyToOutput ==
    /\ pc = "copy"
    /\ \E os_error \in BOOLEAN :
          IF os_error
          THEN /\ error' = ExitOnError("copy", [kind |-> "OSError"])
               /\ args_output' \in {args_output, PartialFile}
               /\ pc' = "exit_1"
          ELSE /\ args_output' = temp_output_file
               /\ pc' = StepAfter("copy")
               /\ UNCHANGED error
    /\ UNCHANGED <<colorVars, cssVars, mergeVars, parseVars, data, recolorVars, groupVars,
                   mainVars, fileVars, no_background, previous_output>>

\* if args.export_metadata: _export_metadata(...), with sys.exit(1) when it
\* raises.
ExportMetadata ==
    /\ pc = "metadata"
    /\ \E export_metadata \in BOOLEAN, os_error \in BOOLEAN :
          IF export_metadata /\ os_error
          THEN /\ error' = [kind |-> "error_exporting_metadata"]
               /\ pc' = "exit_1"
          ELSE /\ pc' = "done"
               /\ UNCHANGED error
    /\ UNCHANGED <<colorVars, cssVars, mergeVars, parseVars, data, recolorVars, pipeVars>>

NextFinish ==
    \/ MergeToTemp
    \/ AddBackgroundToTemp
    \/ CleanTemp
    \/ CopyToOutput
    \/ ExportMetadata

\* The fragments of the runs: a missing file, a plain fragment, one with
\* nested empty groups, one of another size, and two whose viewBox is
\* separated by commas.
FinishFiles ==
    {MissingFile,
     SvgFile("100mm", "100mm", "0 0 100 100", NoStyle, PlainBody),
     SvgFile("100mm", "100mm", "0 0 100 100", NoStyle, <<G_OPEN, G_OPEN, G_CLOSE, G_CLOSE>>),
     SvgFile("200mm", "100mm", "0 0 200 100", NoStyle, PlainBody),
     SvgFile("100mm", "100mm", "0,0,100,100", NoStyle, PlainBody),
     SvgFile("100mm", "100mm", "0,0,100,100", NoStyle, <<G_OPEN, G_CLOSE, ELEMENT>>)}

\* The file a previous run left at the output path.
PreviousOutput ==
    SvgTree(<<"0", " ", "0", " ", "1", "0", "0", " ", "1", "0", "0">>, <<"1", "0", "0", "m", "m">>, <<"1", "0", "0", "m", "m">>, <<TitleElem, DescElem, PathElem>>)

\* main before the try block: the fragments are listed, the temporary file is
\* not yet written.
InitFinish ==
    /\ ColorsIdle
    /\ OthersIdle
    /\ GroupIdle
    /\ MainIdle
    /\ svg_files \in SeqsOf(FinishFiles, 0, MaxFiles)
    /\ base_svg = NoBase
    /\ forced = NoForced
    /\ output_file = Idle
    /\ temp_output_file = MissingFile
    /\ original_file = Idle
    /\ background_color \in BackgroundColors
    /\ no_background \in BOOLEAN
    /\ args_output \in {MissingFile, PreviousOutput}
    /\ previous_output = args_output
    /\ error = NoError
    /\ pc = "merge"

SpecFinish == InitFinish /\ [][NextFinish]_vars

\* The steps that work on the temporary file.
TempSteps == {"merge", "background", "cleanup"}

\* C25: the output path is written only after merge, background insertion and
\* cleanup have succeeded on the temporary file; when one of them fails the
\* file at the output path is the one that was there before the run (or still
\* none) and the process exits with status 1.
C25_OutputOnlyAfterSuccess ==
    /\ pc \in TempSteps \cup {"copy"} => args_output = previous_output
    /\ (pc = "exit_1" /\ error.kind = "error_creating_svg" /\ error.step \in TempSteps)
          => args_output = previous_output
    /\ error # NoError => pc = "exit_1"
    /\ pc \in {"metadata", "done"} =>
          /\ args_output = temp_output_file
          /\ temp_output_file \notin {MissingFile, MalformedFile}

\* C25 witness: the background step failed on the merged file and the file of
\* a previous run is still at the output path.
C25_Witness ==
    /\ pc = "exit_1"
    /\ error.kind = "error_creating_svg"
    /\ error.step = "background"
    /\ error.cause.kind = "ValueError"
    /\ previous_output = PreviousOutput
    /\ args_output = PreviousOutput
    /\ temp_output_file # MissingFile

====
